---- MODULE Spec2Model ----
(***************************************************************************)
(* The feed of telegram-feed: the global store's feed state, the action    *)
(* handlers of global/actions (filters, loadFeedMessages,                  *)
(* loadMoreFeedMessages) and the FeedColumn / FeedSettings callers that    *)
(* dispatch them.                                                          *)
(*                                                                         *)
(* A message is identified by its key <<chatId, id>>; its content is fixed *)
(* by the gateway (World).  Timelines, the message store and the local     *)
(* arrays of a running load hold keys; M(k) is the message of key k.       *)
(***************************************************************************)
EXTENDS Integers, Sequences, FiniteSets, TLC

VARIABLES
    gateway,    \* which World the Source Fetch Gateway serves (fixed in a run)
    global,     \* the global store: [feed, messages]
    loads,      \* the running async handlers (loadFeedMessages / loadMoreFeedMessages)
    mounted,    \* FeedColumn is mounted
    props,      \* FeedColumn's props as of its last render (mapStateToProps)
    now,        \* Date.now() as of the last saveFeedFilter
    localStorage, \* the array stored under FEED_FILTERS_STORAGE_KEY
    used,       \* what the run has used of its bounds, and the handler that ran
                \* last: [ops, failures, last]
    view        \* the scroll container and the state of the hooks that read
                \* it, where a specification looks at them

vars == <<gateway, global, loads, mounted, props, now, localStorage, used, view>>

\* the scroll container left out of a specification
NoView == <<>>

----------------------------------------------------------------------------
(* Bounds of the model *)

\* at most this many async load handlers run at the same time
MaxLoads == 2
\* the user interface dispatches at most this many actions in a run (loads
\* from FeedColumn and filter actions from the settings dialog together)
MaxOps == 4
\* at most this many fetches of a run fail (resolve undefined, or reject)
MaxFailures == 1
\* Date.now() stops here: at most this many presets are ever created
MaxTime == 1
\* the page size the model gives MESSAGES_PER_CHANNEL (50 in the source), so
\* that a source's history is longer than one page
PageLimit == 2
MaxItems == 3           \* items given to useFeedVirtualization
MaxScroll == 6          \* scrollTop, in pixels
MaxContainer == 4       \* clientHeight of the container, in pixels
MaxItemHeight == 3      \* estimatedItemHeight, in pixels
MaxOverscan == 1
\* toggleFeed calls in a behaviour
MaxToggles == 9

(* Program constants *)
MAX_FILTERS == 50
MAX_FILTER_NAME_LENGTH == 100
MAX_EXCLUDED_CHATS == 500
CHANNELS_TO_LOAD == 100
MESSAGES_PER_CHANNEL == PageLimit

undefined == 0

----------------------------------------------------------------------------
(* Chats: state.chats.listIds.active and state.chats.byId *)

ActiveChatIds == <<"a", "b", "me", "u">>

ChatType(chatId) ==
    CASE chatId = "a" -> "chatTypeChannel"
      [] chatId = "b" -> "chatTypeSuperGroup"
      [] OTHER -> "chatTypePrivate"

isChatChannel(chatId) == ChatType(chatId) = "chatTypeChannel"
isChatGroup(chatId) == ChatType(chatId) \in {"chatTypeBasicGroup", "chatTypeSuperGroup"}
selectIsChatWithSelf(chatId) == chatId = "me"

\* the chats the settings dialog lists (and so the chats a user can toggle)
ChannelList == {c \in {ActiveChatIds[i] : i \in 1..Len(ActiveChatIds)} :
                    ChatType(c) \in {"chatTypeChannel", "chatTypeSuperGroup", "chatTypeBasicGroup"}}

----------------------------------------------------------------------------
(* Gateway contents *)

Message(chatId, id, date, groupedId, text, media) ==
    [chatId |-> chatId, id |-> id, date |-> date, groupedId |-> groupedId,
     text |-> text, media |-> media, caption |-> ""]

\* "plain": no albums; a has three messages, one more than a page
\* "album": in a an album g1 without text (dates 3, 3) followed by a text
\*          message, and an older message; b interleaves
\* "groups": an album in each chat whose later member has the text; b's
\*          album lies across the page boundary; the two members with text
\*          have the same date
\* "donors": an album without text in each chat, and a later text message
\*          in each chat; the two text messages have the same id
\* "history": no albums; a has four messages, two pages, and the newer
\*          page of a is later than every message of b
World(w) ==
    CASE w = "plain" ->
            { Message("a", 1, 1, "", "a1", "none"),
              Message("a", 2, 3, "", "a2", "none"),
              Message("a", 3, 5, "", "a3", "none"),
              Message("b", 1, 2, "", "b1", "none"),
              Message("b", 2, 4, "", "b2", "none") }
      [] w = "album" ->
            { Message("a", 1, 1, "", "a1", "none"),
              Message("a", 2, 3, "g1", "", "photo"),
              Message("a", 3, 3, "g1", "", "photo"),
              Message("a", 4, 5, "", "a4", "none"),
              Message("b", 1, 4, "", "b1", "none") }
      [] w = "groups" ->
            { Message("a", 1, 1, "", "a1", "none"),
              Message("a", 2, 4, "g1", "", "photo"),
              Message("a", 3, 5, "g1", "a3", "photo"),
              Message("b", 1, 4, "g2", "", "photo"),
              Message("b", 2, 5, "g2", "b2", "photo"),
              Message("b", 3, 6, "", "b3", "none") }
      [] w = "donors" ->
            { Message("a", 1, 1, "g1", "", "photo"),
              Message("a", 2, 5, "", "a2", "none"),
              Message("b", 1, 2, "g2", "", "photo"),
              Message("b", 2, 3, "", "b2", "none") }
      [] w = "history" ->
            { Message("a", 1, 1, "", "a1", "none"),
              Message("a", 2, 4, "", "a2", "none"),
              Message("a", 3, 5, "", "a3", "none"),
              Message("a", 4, 6, "", "a4", "none"),
              Message("b", 1, 2, "", "b1", "none"),
              Message("b", 2, 3, "", "b2", "none") }

Worlds == {"plain", "album"}
AlbumWorlds == {"groups", "donors"}

getSearchResultKey(m) == <<m.chatId, m.id>>
parseSearchResultKey(key) == <<key[1], key[2]>>

Keys(w) == {getSearchResultKey(m) : m \in World(w)}
M(k) == CHOOSE m \in World(gateway) : getSearchResultKey(m) = k

Range(s) == {s[i] : i \in 1..Len(s)}
Front(s) == SubSeq(s, 1, Len(s) - 1)
Last(s) == s[Len(s)]
Min(a, b) == IF a < b THEN a ELSE b
slice(s, n) == SubSeq(s, 1, Min(n, Len(s)))

\* the newest message of a non-empty set (by date, then by id)
Newest(ms) == CHOOSE m \in ms : \A o \in ms : o.date < m.date \/ (o.date = m.date /\ o.id <= m.id)

RECURSIVE NewestFirst(_)
NewestFirst(ms) ==
    IF ms = {} THEN <<>> ELSE <<Newest(ms)>> \o NewestFirst(ms \ {Newest(ms)})

NoDate == -1

\* callApi('fetchMessages', {chat, limit, offsetDate}): the newest `limit`
\* messages of the chat, strictly older than offsetDate when one is given
fetchMessages(chatId, limit, offsetDate) ==
    LET older == {m \in World(gateway) :
                    m.chatId = chatId /\ (offsetDate = NoDate \/ m.date < offsetDate)}
        page == slice(NewestFirst(older), limit)
    IN [i \in 1..Len(page) |-> getSearchResultKey(page[i])]

----------------------------------------------------------------------------
(* Array.prototype.sort((a, b) => a.date - b.date): stable, ascending *)

InsertByDate(sorted, m) ==
    LET n == Cardinality({i \in 1..Len(sorted) : sorted[i].date <= m.date})
    IN SubSeq(sorted, 1, n) \o <<m>> \o SubSeq(sorted, n + 1, Len(sorted))

RECURSIVE SortByDate(_)
SortByDate(s) ==
    IF s = <<>> THEN <<>> ELSE InsertByDate(SortByDate(Front(s)), Last(s))

----------------------------------------------------------------------------
(* Album consolidation, as written twice in the source (loadFeedMessages   *)
(* and loadMoreFeedMessages): messages is sorted by date.                  *)

standaloneMessages(messages) == SelectSeq(messages, LAMBDA m : m.groupedId = "")

\* the keys of groupedMessages, in Map insertion order
RECURSIVE GroupIds(_)
GroupIds(messages) ==
    IF messages = <<>> THEN <<>>
    ELSE LET rest == GroupIds(Front(messages))
             g == Last(messages).groupedId
         IN IF g = "" \/ g \in Range(rest) THEN rest ELSE Append(rest, g)

groupedMessages(messages, groupId) == SelectSeq(messages, LAMBDA m : m.groupedId = groupId)

HasOwnText(msg) ==
    \/ msg.text # ""
    \/ (msg.media = "photo" /\ msg.caption # "")
    \/ (msg.media = "video" /\ msg.caption # "")

\* Array.prototype.find: the index of the first element that satisfies P, or 0
FindIndex(s, P(_)) ==
    IF \E i \in 1..Len(s) : P(s[i])
    THEN CHOOSE i \in 1..Len(s) : P(s[i]) /\ \A j \in 1..(i - 1) : ~P(s[j])
    ELSE 0

MaxDate(messages) ==
    CHOOSE d \in {messages[i].date : i \in 1..Len(messages)} :
        \A i \in 1..Len(messages) : messages[i].date <= d

\* SelectForGroup without the usedStandaloneIds test of the find
SelectForGroupReusing(acc, messages, standalone) ==
    LET withText == FindIndex(messages, HasOwnText)
        first == IF withText # 0 THEN messages[withText] ELSE messages[1]
        albumMaxDate == MaxDate(messages)
        IsNextText(msg) == /\ msg.date > albumMaxDate
                           /\ msg.text # ""
                           /\ msg.media = "none"
        next == IF withText # 0 THEN 0 ELSE FindIndex(standalone, IsNextText)
    IN IF next = 0
       THEN [selected |-> Append(acc.selected, first), used |-> acc.used]
       ELSE [selected |-> Append(acc.selected, [first EXCEPT !.text = standalone[next].text]),
             used |-> acc.used \cup {standalone[next].id}]

\* one iteration of groupedMessages.forEach: acc is
\* [selected: selectedGroupMessages, used: usedStandaloneIds]
SelectForGroup(acc, messages, standalone) ==
    LET withText == FindIndex(messages, HasOwnText)
        first == IF withText # 0 THEN messages[withText] ELSE messages[1]
        albumMaxDate == MaxDate(messages)
        IsNextText(msg) == /\ msg.date > albumMaxDate
                           /\ msg.text # ""
                           /\ msg.media = "none"
                           /\ msg.id \notin acc.used
        next == IF withText # 0 THEN 0 ELSE FindIndex(standalone, IsNextText)
    IN IF next = 0
       THEN [selected |-> Append(acc.selected, first), used |-> acc.used]
       ELSE [selected |-> Append(acc.selected, [first EXCEPT !.text = standalone[next].text]),
             used |-> acc.used \cup {standalone[next].id}]

RECURSIVE SelectGroups(_, _, _)
SelectGroups(groupIds, messages, standalone) ==
    IF groupIds = <<>> THEN [selected |-> <<>>, used |-> {}]
    ELSE SelectForGroup(SelectGroups(Front(groupIds), messages, standalone),
                        groupedMessages(messages, Last(groupIds)), standalone)

\* Consolidate without the sort of line 464 / 659
ConsolidateUnsorted(messages) ==
    LET standalone == standaloneMessages(messages)
        acc == SelectGroups(GroupIds(messages), messages, standalone)
        filteredStandaloneMessages == SelectSeq(standalone, LAMBDA m : m.id \notin acc.used)
    IN filteredStandaloneMessages \o acc.selected

\* Consolidate that keeps every member of an album
ConsolidateKeepMembers(messages) == SortByDate(messages)

\* filteredMessages
Consolidate(messages) ==
    LET standalone == standaloneMessages(messages)
        acc == SelectGroups(GroupIds(messages), messages, standalone)
        filteredStandaloneMessages == SelectSeq(standalone, LAMBDA m : m.id \notin acc.used)
    IN SortByDate(filteredStandaloneMessages \o acc.selected)

MapKeys(messages) == [i \in 1..Len(messages) |-> getSearchResultKey(messages[i])]
Lookup(keys) == [i \in 1..Len(keys) |-> M(keys[i])]

\* ids.filter(key => !excludedChatIds.includes(chatId of key)), skipped for
\* an empty excludedChatIds
FilterExcluded(ids, excludedChatIds) ==
    IF Len(excludedChatIds) > 0
    THEN SelectSeq(ids, LAMBDA key : parseSearchResultKey(key)[1] \notin Range(excludedChatIds))
    ELSE ids

\* channelAndGroupIds without the check of excludedChatIds (line 355 / 553)
ChannelAndGroupIdsWithExcluded(excludedChatIds) ==
    slice(SelectSeq(ActiveChatIds,
                    LAMBDA chatId : /\ ~selectIsChatWithSelf(chatId)
                                    /\ (isChatChannel(chatId) \/ isChatGroup(chatId))),
          CHANNELS_TO_LOAD)

\* channelAndGroupIds
ChannelAndGroupIds(excludedChatIds) ==
    slice(SelectSeq(ActiveChatIds,
                    LAMBDA chatId : /\ chatId \notin Range(excludedChatIds)
                                    /\ ~selectIsChatWithSelf(chatId)
                                    /\ (isChatChannel(chatId) \/ isChatGroup(chatId))),
          CHANNELS_TO_LOAD)

\* Array.from(new Map(messages.map(m => [key, m])).values()): one entry per
\* key, at the place of the key's first occurrence
RECURSIVE UniqueByKey(_)
UniqueByKey(keys) ==
    IF keys = <<>> THEN <<>>
    ELSE LET rest == UniqueByKey(Front(keys))
         IN IF Last(keys) \in Range(rest) THEN rest ELSE Append(rest, Last(keys))

----------------------------------------------------------------------------
(* The global store *)

InitialFeed ==
    [allMessageIds |-> <<>>, messageIds |-> <<>>, excludedChatIds |-> <<>>,
     savedFilters |-> <<>>, activeFilterId |-> undefined,
     isLoading |-> FALSE, isLoadingMore |-> FALSE]

\* updateTabState(g, {feed}, tabId)
updateTabState(g, feed) == [g EXCEPT !.feed = feed]

\* addChatMessagesById(g, chatId, buildCollectionByKey(messages, 'id'))
addChatMessagesById(g, keys) == [g EXCEPT !.messages = @ \cup Range(keys)]

\* FeedColumn's mapStateToProps, the part its callbacks read
mapStateToProps(g) ==
    [isLoading |-> g.feed.isLoading, isLoadingMore |-> g.feed.isLoadingMore,
     messageIdsLength |-> Len(g.feed.messageIds)]

NoSnapshot == [feed |-> InitialFeed, messages |-> {}]

----------------------------------------------------------------------------
(* loadFeedMessages *)

\* lines 394-490: sort, consolidate, filter and write the feed
LoadFeedMessagesMerge(g, allMessages, excludedChatIds) ==
    LET filteredMessages == Consolidate(SortByDate(Lookup(allMessages)))
        allMessageIds == MapKeys(filteredMessages)
        messageIds == FilterExcluded(allMessageIds, excludedChatIds)
    IN updateTabState(g, [g.feed EXCEPT !.allMessageIds = allMessageIds,
                                        !.messageIds = messageIds,
                                        !.isLoading = FALSE,
                                        !.excludedChatIds = excludedChatIds])

\* lines 491-502: the catch block
LoadFeedMessagesCatch(g) == updateTabState(g, [g.feed EXCEPT !.isLoading = FALSE])

\* lines 325-391: the handler up to its await; st is [global, loads].
\* With no eligible chat Promise.all([]) is resolved at once and the merge
\* runs in the same turn.
LoadFeedMessagesStart(st) ==
    LET g == updateTabState(st.global, [st.global.feed EXCEPT !.isLoading = TRUE])
        excludedChatIds == g.feed.excludedChatIds
        channelAndGroupIds == ChannelAndGroupIds(excludedChatIds)
    IN IF channelAndGroupIds = <<>>
       THEN [global |-> LoadFeedMessagesMerge(g, <<>>, excludedChatIds), loads |-> st.loads]
       ELSE [global |-> g,
             loads |-> Append(st.loads,
                 [kind |-> "loadFeedMessages",
                  excludedChatIds |-> excludedChatIds,
                  pending |-> Range(channelAndGroupIds),
                  messages |-> <<>>,
                  failed |-> FALSE,
                  state |-> NoSnapshot,
                  global |-> NoSnapshot,
                  maxDate |-> NoDate])]

----------------------------------------------------------------------------
(* loadMoreFeedMessages *)

\* lines 581-592: no new message
LoadMoreNothingNew(g, feed) == updateTabState(g, [feed EXCEPT !.isLoadingMore = FALSE])

\* lines 594-599: the messages of the timeline the handler started from
existingMessages(state) ==
    SelectSeq(state.feed.messageIds, LAMBDA key : parseSearchResultKey(key) \in state.messages)

\* LoadMoreWrite without line 677: allMessageIds is not updated
LoadMoreWriteMessageIdsOnly(g, newAllMessageIds, newMessageIds) ==
    updateTabState(g, [g.feed EXCEPT !.messageIds = newMessageIds,
                                     !.isLoadingMore = FALSE])

\* lines 671-682: the write of the merged timelines
LoadMoreWrite(g, newAllMessageIds, newMessageIds) ==
    updateTabState(g, [g.feed EXCEPT !.allMessageIds = newAllMessageIds,
                                     !.messageIds = newMessageIds,
                                     !.isLoadingMore = FALSE])

\* lines 594-682
LoadMoreMerge(g, newMessages, state) ==
    LET allMessages == SortByDate(Lookup(newMessages \o existingMessages(state)))
        uniqueMessages == SortByDate(Lookup(UniqueByKey(MapKeys(allMessages))))
        filteredMessages == Consolidate(uniqueMessages)
        newAllMessageIds == MapKeys(filteredMessages)
        newMessageIds == FilterExcluded(newAllMessageIds, state.feed.excludedChatIds)
    IN LoadMoreWrite(g, newAllMessageIds, newMessageIds)

\* lines 684-695: the catch block
LoadMoreCatch(g) == updateTabState(g, [g.feed EXCEPT !.isLoadingMore = FALSE])

\* LoadMoreStart without the guard of line 510
LoadMoreStartUnguarded(st) ==
    LET state == st.global
        feed == state.feed
        g == updateTabState(st.global, [feed EXCEPT !.isLoadingMore = TRUE])
        oldestKey == feed.messageIds[1]
        channelAndGroupIds == ChannelAndGroupIds(feed.excludedChatIds)
    IN IF Len(feed.messageIds) = 0
       THEN LoadFeedMessagesStart([global |-> g, loads |-> st.loads])
       ELSE IF parseSearchResultKey(oldestKey) \notin state.messages
            THEN [global |-> LoadMoreNothingNew(g, feed), loads |-> st.loads]
       ELSE IF channelAndGroupIds = <<>>
            THEN [global |-> LoadMoreNothingNew(g, feed), loads |-> st.loads]
       ELSE [global |-> g,
             loads |-> Append(st.loads,
                 [kind |-> "loadMoreFeedMessages",
                  excludedChatIds |-> feed.excludedChatIds,
                  pending |-> Range(channelAndGroupIds),
                  messages |-> <<>>,
                  failed |-> FALSE,
                  state |-> state,
                  global |-> g,
                  maxDate |-> M(oldestKey).date])]

\* lines 505-579: the handler up to its await; st is [global, loads]
LoadMoreStart(st) ==
    LET state == st.global
        feed == state.feed
        g == updateTabState(st.global, [feed EXCEPT !.isLoadingMore = TRUE])
        oldestKey == feed.messageIds[1]
        channelAndGroupIds == ChannelAndGroupIds(feed.excludedChatIds)
    IN IF feed.isLoadingMore \/ feed.isLoading THEN st
       ELSE IF Len(feed.messageIds) = 0
            THEN LoadFeedMessagesStart([global |-> g, loads |-> st.loads])
       ELSE IF parseSearchResultKey(oldestKey) \notin state.messages
            THEN [global |-> LoadMoreNothingNew(g, feed), loads |-> st.loads]
       ELSE IF channelAndGroupIds = <<>>
            THEN [global |-> LoadMoreNothingNew(g, feed), loads |-> st.loads]
       ELSE [global |-> g,
             loads |-> Append(st.loads,
                 [kind |-> "loadMoreFeedMessages",
                  excludedChatIds |-> feed.excludedChatIds,
                  pending |-> Range(channelAndGroupIds),
                  messages |-> <<>>,
                  failed |-> FALSE,
                  state |-> state,
                  global |-> g,
                  maxDate |-> M(oldestKey).date])]

----------------------------------------------------------------------------
(* Filter presets.  A preset is [id, name, excludedChatIds]; a name is a   *)
(* sequence of characters; the id `filter_${Date.now()}` is the time.      *)

RECURSIVE trimStart(_)
trimStart(name) ==
    IF name # <<>> /\ Head(name) = " " THEN trimStart(Tail(name)) ELSE name

RECURSIVE trimEnd(_)
trimEnd(name) ==
    IF name # <<>> /\ Last(name) = " " THEN trimEnd(Front(name)) ELSE name

\* a name taken as typed
trimNothing(name) == name

trim(name) == trimEnd(trimStart(name))

\* savedFilters.find(f => f.id === filterId): its index, or 0
FindFilter(savedFilters, filterId) ==
    FindIndex(savedFilters, LAMBDA f : f.id = filterId)

\* line 38 and line 45: what a write puts in localStorage
limitedFilters(filters) == slice(filters, MAX_FILTERS)
reducedFilters(filters) == slice(filters, MAX_FILTERS \div 2)

\* saveFiltersToStorage: the new content of localStorage.  write is what
\* localStorage.setItem does: "ok", "quota" (QuotaExceededError, the retry
\* succeeds), "quotaTwice" (the retry fails too) or "error" (another error:
\* no retry is made).
saveFiltersToStorage(storage, filters, write) ==
    CASE write = "ok" -> limitedFilters(filters)
      [] write = "quota" -> reducedFilters(filters)
      [] OTHER -> storage

Writes == {"ok", "quota", "quotaTwice", "error"}

\* saveFiltersToStorage letting the error of a failed write out
saveFiltersToStorageRethrows(write) == write \in {"quotaTwice", "error"}

\* whether an error leaves saveFiltersToStorage: both calls of setItem are
\* inside a try and neither catch throws (lines 40-52)
saveFiltersToStorageThrows(write) == FALSE

toggleFeedChannelExclusion(feed, chatId) ==
    [feed EXCEPT !.excludedChatIds =
        IF chatId \in Range(@)
        THEN SelectSeq(@, LAMBDA id : id # chatId)
        ELSE Append(@, chatId)]

\* the preset saveFeedFilter builds
newFilter(feed, name, id) ==
    [id |-> id,
     name |-> slice(trim(name), MAX_FILTER_NAME_LENGTH),
     excludedChatIds |-> slice(feed.excludedChatIds, MAX_EXCLUDED_CHATS)]

\* saveFeedFilterRejects without the check of lines 127-130
saveFeedFilterRejectsEmptyName(feed, name) == Len(trim(name)) = 0

saveFeedFilterRejects(feed, name) ==
    \/ Len(trim(name)) = 0
    \/ Len(feed.savedFilters) >= MAX_FILTERS

saveFeedFilter(feed, name, id) ==
    IF saveFeedFilterRejects(feed, name) THEN feed
    ELSE [feed EXCEPT !.savedFilters = Append(@, newFilter(feed, name, id))]

\* deleteFeedFilter without the reset of activeFilterId (line 168)
deleteFeedFilterKeepActive(feed, filterId) ==
    [feed EXCEPT !.savedFilters = SelectSeq(@, LAMBDA f : f.id # filterId)]

deleteFeedFilter(feed, filterId) ==
    [feed EXCEPT !.savedFilters = SelectSeq(@, LAMBDA f : f.id # filterId),
                 !.activeFilterId = IF @ = filterId THEN undefined ELSE @]

renameFeedFilterRejects(newName) == Len(trim(newName)) = 0

renameFeedFilter(feed, filterId, newName) ==
    IF renameFeedFilterRejects(newName) THEN feed
    ELSE [feed EXCEPT !.savedFilters =
            [i \in 1..Len(@) |->
                IF @[i].id = filterId
                THEN [@[i] EXCEPT !.name = slice(trim(newName), MAX_FILTER_NAME_LENGTH)]
                ELSE @[i]]]

updateFeedFilter(feed, filterId) ==
    [feed EXCEPT !.savedFilters =
        [i \in 1..Len(@) |->
            IF @[i].id = filterId
            THEN [@[i] EXCEPT !.excludedChatIds = feed.excludedChatIds]
            ELSE @[i]]]

\* line 234
sourceMessageIds(feed) ==
    IF Len(feed.allMessageIds) > 0 THEN feed.allMessageIds ELSE feed.messageIds

\* applyFeedFilter filtering by the current exclusions, not the preset's
applyFeedFilterCurrentExcluded(feed, filterId) ==
    LET i == FindFilter(feed.savedFilters, filterId)
        filter == feed.savedFilters[i]
    IN IF i = 0 THEN feed
       ELSE [feed EXCEPT !.excludedChatIds = filter.excludedChatIds,
                         !.messageIds = FilterExcluded(sourceMessageIds(feed), feed.excludedChatIds),
                         !.activeFilterId = filterId]

\* applyFeedFilter adding the preset's exclusions to the current ones
applyFeedFilterAdding(feed, filterId) ==
    LET i == FindFilter(feed.savedFilters, filterId)
        filter == feed.savedFilters[i]
        excluded == feed.excludedChatIds \o filter.excludedChatIds
    IN IF i = 0 THEN feed
       ELSE [feed EXCEPT !.excludedChatIds = excluded,
                         !.messageIds = FilterExcluded(sourceMessageIds(feed), excluded),
                         !.activeFilterId = filterId]

applyFeedFilter(feed, filterId) ==
    LET i == FindFilter(feed.savedFilters, filterId)
        filter == feed.savedFilters[i]
    IN IF i = 0 THEN feed
       ELSE [feed EXCEPT !.excludedChatIds = filter.excludedChatIds,
                         !.messageIds = FilterExcluded(sourceMessageIds(feed), filter.excludedChatIds),
                         !.activeFilterId = filterId]

\* clearFeedFilter without line 270: messageIds is left as it is
clearFeedFilterKeepTimeline(feed) ==
    [feed EXCEPT !.excludedChatIds = <<>>,
                 !.activeFilterId = undefined]

clearFeedFilter(feed) ==
    [feed EXCEPT !.excludedChatIds = <<>>,
                 !.messageIds = feed.allMessageIds,
                 !.activeFilterId = undefined]

detachFeedFilter(feed) == [feed EXCEPT !.activeFilterId = undefined]

----------------------------------------------------------------------------
(* The state machine *)

\* the names the dialog passes: empty, blank, and one to trim
NameInputs == {<<>>, <<" ">>, <<" ", "N">>}
\* in Spec every write to localStorage succeeds (no handler reads it back)
SpecWrites == {"ok"}
Outcomes == {"messages", "undefined", "rejected"}
FilterIds == 1..MaxTime

Init ==
    /\ gateway \in Worlds
    /\ global = [feed |-> InitialFeed, messages |-> {}]
    /\ loads = <<>>
    /\ mounted = FALSE
    /\ props = mapStateToProps([feed |-> InitialFeed, messages |-> {}])
    /\ now = 0
    /\ localStorage = <<>>
    /\ used = [ops |-> 0, failures |-> 0, last |-> "none"]
    /\ view = NoView

Store == [global |-> global, loads |-> loads]

\* getActions().loadFeedMessages()
DispatchLoadFeedMessages ==
    /\ Len(loads) < MaxLoads
    /\ used.ops < MaxOps
    /\ global' = LoadFeedMessagesStart(Store).global
    /\ loads' = LoadFeedMessagesStart(Store).loads

\* getActions().loadMoreFeedMessages()
DispatchLoadMoreFeedMessages ==
    /\ Len(loads) < MaxLoads
    /\ used.ops < MaxOps
    /\ global' = LoadMoreStart(Store).global
    /\ loads' = LoadMoreStart(Store).loads

\* FeedColumn.tsx 337-339: the first render, then the mount effect
Mount ==
    /\ ~mounted
    /\ mounted' = TRUE
    /\ props' = mapStateToProps(global)
    /\ DispatchLoadFeedMessages
    /\ used' = [used EXCEPT !.ops = @ + 1, !.last = "Mount"]
    /\ UNCHANGED <<view, gateway, now, localStorage>>

\* withGlobal(mapStateToProps): a render with the current global
Render ==
    /\ mounted
    /\ props # mapStateToProps(global)
    /\ props' = mapStateToProps(global)
    /\ used' = [used EXCEPT !.last = "Render"]
    /\ UNCHANGED <<view, gateway, global, loads, mounted, now, localStorage>>

\* FeedColumn.tsx 189-197: the polling interval fires
PollTick ==
    /\ mounted
    /\ IF ~props.isLoading /\ ~props.isLoadingMore
       THEN DispatchLoadFeedMessages /\ used' = [used EXCEPT !.ops = @ + 1, !.last = "PollTick"]
       ELSE UNCHANGED <<global, loads, used>>
    /\ UNCHANGED <<view, gateway, mounted, props, now, localStorage>>

\* FeedColumn.tsx 277-306: handleTouchEnd with pullDistance > PULL_THRESHOLD
PullToRefresh ==
    /\ mounted
    /\ DispatchLoadFeedMessages
    /\ used' = [used EXCEPT !.ops = @ + 1, !.last = "PullToRefresh"]
    /\ UNCHANGED <<view, gateway, mounted, props, now, localStorage>>

\* FeedColumn.tsx 367-385: handleScroll with scrollTop < 1000
HandleScroll ==
    /\ mounted
    /\ IF ~props.isLoadingMore /\ ~props.isLoading /\ props.messageIdsLength > 0
       THEN DispatchLoadMoreFeedMessages /\ used' = [used EXCEPT !.ops = @ + 1, !.last = "HandleScroll"]
       ELSE UNCHANGED <<global, loads, used>>
    /\ UNCHANGED <<view, gateway, mounted, props, now, localStorage>>

RemoveAt(s, i) == SubSeq(s, 1, i - 1) \o SubSeq(s, i + 1, Len(s))

\* what runs when the fetch of chatId in load ld settles: the callback of
\* lines 382-390 / 573-578, then, when Promise.all settles by it, the rest
\* of the handler.  The result is [global, load].
Settle(g, ld, chatId, outcome) ==
    LET more == ld.kind = "loadMoreFeedMessages"
        page == fetchMessages(chatId, MESSAGES_PER_CHANNEL, ld.maxDate)
        g1 == IF outcome = "messages" THEN addChatMessagesById(g, page) ELSE g
        ld1 == [ld EXCEPT !.pending = @ \ {chatId},
                          !.messages = IF outcome = "messages" THEN @ \o page ELSE @,
                          !.global = IF outcome = "messages" /\ more THEN g1 ELSE @,
                          !.failed = @ \/ outcome = "rejected"]
        g2 == CASE outcome = "rejected" /\ ~ld.failed ->
                      IF more THEN LoadMoreCatch(g1) ELSE LoadFeedMessagesCatch(g1)
                 [] ld1.pending = {} /\ ~ld1.failed /\ ~more ->
                      LoadFeedMessagesMerge(g1, ld1.messages, ld1.excludedChatIds)
                 [] ld1.pending = {} /\ ~ld1.failed /\ more /\ ld1.messages = <<>> ->
                      LoadMoreNothingNew(ld1.global, ld1.state.feed)
                 [] ld1.pending = {} /\ ~ld1.failed /\ more /\ ld1.messages # <<>> ->
                      LoadMoreMerge(g1, ld1.messages, ld1.state)
                 [] OTHER -> g1
    IN [global |-> g2, load |-> ld1]

FetchSettled(i, chatId, outcome) ==
    /\ i \in 1..Len(loads)
    /\ chatId \in loads[i].pending
    /\ IF outcome = "messages" THEN used' = [used EXCEPT !.last = "FetchSettled"]
       ELSE /\ used.failures < MaxFailures
            /\ used' = [used EXCEPT !.failures = @ + 1, !.last = "FetchSettled"]
    /\ LET r == Settle(global, loads[i], chatId, outcome)
       IN /\ global' = r.global
          /\ loads' = IF r.load.pending = {}
                      THEN RemoveAt(loads, i)
                      ELSE [loads EXCEPT ![i] = r.load]
    /\ UNCHANGED <<view, gateway, mounted, props, now, localStorage>>

SetFeed(feed) == global' = updateTabState(global, feed)

\* a handler that calls saveFiltersToStorage before it returns the new
\* global: an error thrown by the call would leave global as it was
SetFeedAfterWrite(feed, write) ==
    IF saveFiltersToStorageThrows(write) THEN UNCHANGED global ELSE SetFeed(feed)

\* a filter action dispatched from the settings dialog
Edit(handler) ==
    /\ mounted
    /\ used.ops < MaxOps
    /\ used' = [used EXCEPT !.ops = @ + 1, !.last = handler]

ToggleFeedChannelExclusion(chatId) ==
    /\ Edit("ToggleFeedChannelExclusion")
    /\ SetFeed(toggleFeedChannelExclusion(global.feed, chatId))
    /\ UNCHANGED <<view, gateway, loads, mounted, props, now, localStorage>>

SaveFeedFilter(name, write) ==
    /\ Edit("SaveFeedFilter")
    /\ now < MaxTime
    /\ IF saveFeedFilterRejects(global.feed, name)
       THEN UNCHANGED <<global, now, localStorage>>
       ELSE /\ now' = now + 1
            /\ SetFeedAfterWrite(saveFeedFilter(global.feed, name, now + 1), write)
            /\ localStorage' = saveFiltersToStorage(localStorage,
                    saveFeedFilter(global.feed, name, now + 1).savedFilters, write)
    /\ UNCHANGED <<view, gateway, loads, mounted, props>>

DeleteFeedFilter(filterId, write) ==
    /\ Edit("DeleteFeedFilter")
    /\ SetFeedAfterWrite(deleteFeedFilter(global.feed, filterId), write)
    /\ localStorage' = saveFiltersToStorage(localStorage,
            deleteFeedFilter(global.feed, filterId).savedFilters, write)
    /\ UNCHANGED <<view, gateway, loads, mounted, props, now>>

RenameFeedFilter(filterId, newName, write) ==
    /\ Edit("RenameFeedFilter")
    /\ IF renameFeedFilterRejects(newName)
       THEN UNCHANGED <<global, localStorage>>
       ELSE /\ SetFeedAfterWrite(renameFeedFilter(global.feed, filterId, newName), write)
            /\ localStorage' = saveFiltersToStorage(localStorage,
                    renameFeedFilter(global.feed, filterId, newName).savedFilters, write)
    /\ UNCHANGED <<view, gateway, loads, mounted, props, now>>

UpdateFeedFilter(filterId, write) ==
    /\ Edit("UpdateFeedFilter")
    /\ SetFeedAfterWrite(updateFeedFilter(global.feed, filterId), write)
    /\ localStorage' = saveFiltersToStorage(localStorage,
            updateFeedFilter(global.feed, filterId).savedFilters, write)
    /\ UNCHANGED <<view, gateway, loads, mounted, props, now>>

ApplyFeedFilter(filterId) ==
    /\ Edit("ApplyFeedFilter")
    /\ SetFeed(applyFeedFilter(global.feed, filterId))
    /\ UNCHANGED <<view, gateway, loads, mounted, props, now, localStorage>>

ClearFeedFilter ==
    /\ Edit("ClearFeedFilter")
    /\ SetFeed(clearFeedFilter(global.feed))
    /\ UNCHANGED <<view, gateway, loads, mounted, props, now, localStorage>>

DetachFeedFilter ==
    /\ Edit("DetachFeedFilter")
    /\ SetFeed(detachFeedFilter(global.feed))
    /\ UNCHANGED <<view, gateway, loads, mounted, props, now, localStorage>>

\* FeedSettings (part_000 191-214): the save button while a preset is
\* active.  filterName is the active preset's name (the effect of lines
\* 168-179), so the rename of lines 201-204 is not dispatched; without an
\* active preset the button dispatches saveFeedFilter (SaveFeedFilter).
HandleSaveFilter(write) ==
    /\ Edit("HandleSaveFilter")
    /\ global.feed.activeFilterId # undefined
    /\ Len(loads) < MaxLoads
    /\ used.ops < MaxOps
    /\ LET feed == IF saveFiltersToStorageThrows(write) THEN global.feed
                   ELSE updateFeedFilter(global.feed, global.feed.activeFilterId)
           st == LoadFeedMessagesStart([global |-> updateTabState(global, feed), loads |-> loads])
       IN /\ localStorage' = saveFiltersToStorage(localStorage, feed.savedFilters, write)
          /\ global' = st.global
          /\ loads' = st.loads
    /\ UNCHANGED <<view, gateway, mounted, props, now>>

Next ==
    \/ Mount
    \/ Render
    \/ PollTick
    \/ PullToRefresh
    \/ HandleScroll
    \/ \E i \in 1..MaxLoads, chatId \in ChannelList, outcome \in Outcomes :
            FetchSettled(i, chatId, outcome)
    \/ \E chatId \in ChannelList : ToggleFeedChannelExclusion(chatId)
    \/ \E name \in NameInputs, write \in SpecWrites : SaveFeedFilter(name, write)
    \/ \E filterId \in FilterIds, write \in SpecWrites : DeleteFeedFilter(filterId, write)
    \/ \E filterId \in FilterIds, newName \in NameInputs, write \in SpecWrites :
            RenameFeedFilter(filterId, newName, write)
    \/ \E filterId \in FilterIds, write \in SpecWrites : UpdateFeedFilter(filterId, write)
    \/ \E filterId \in FilterIds : ApplyFeedFilter(filterId)
    \/ ClearFeedFilter
    \/ DetachFeedFilter
    \/ \E write \in SpecWrites : HandleSaveFilter(write)

Spec == Init /\ [][Next]_vars

\* The loads alone (no settings dialog), over the gateways with albums
InitAlbums ==
    /\ gateway \in AlbumWorlds
    /\ global = [feed |-> InitialFeed, messages |-> {}]
    /\ loads = <<>>
    /\ mounted = FALSE
    /\ props = mapStateToProps([feed |-> InitialFeed, messages |-> {}])
    /\ now = 0
    /\ localStorage = <<>>
    /\ used = [ops |-> 0, failures |-> 0, last |-> "none"]
    /\ view = NoView

NextLoads ==
    \/ Mount
    \/ Render
    \/ PollTick
    \/ PullToRefresh
    \/ HandleScroll
    \/ \E i \in 1..MaxLoads, chatId \in ChannelList, outcome \in Outcomes :
            FetchSettled(i, chatId, outcome)

SpecAlbums == InitAlbums /\ [][NextLoads]_vars

----------------------------------------------------------------------------
(* What the claims speak of *)

canonicalTimeline == global.feed.allMessageIds
filteredTimeline == global.feed.messageIds

KeySet(ids) == Range(ids)

SortedByTimestamp(ids) ==
    \A i, j \in 1..Len(ids) : i < j => M(ids[i]).date <= M(ids[j]).date

NoDuplicateKeys(ids) ==
    \A i, j \in 1..Len(ids) : i # j => ids[i] # ids[j]

RECURSIVE IsSubsequence(_, _)
IsSubsequence(s, t) ==
    IF s = <<>> THEN TRUE
    ELSE IF t = <<>> THEN FALSE
    ELSE IF Head(s) = Head(t) THEN IsSubsequence(Tail(s), Tail(t))
    ELSE IsSubsequence(s, Tail(t))

\* ids without the items of the sources in excluded
WithoutSources(ids, excluded) ==
    SelectSeq(ids, LAMBDA key : key[1] \notin excluded)

\* the handlers that have started and not yet run to their end (a handler
\* whose Promise.all rejected has run its catch block: it has ended)
InFlight == {i \in 1..Len(loads) : ~loads[i].failed}

HasFilter(filterId) == FindFilter(global.feed.savedFilters, filterId) # 0
TheFilter(filterId) == global.feed.savedFilters[FindFilter(global.feed.savedFilters, filterId)]

RECURSIVE Pages(_)
Pages(chatIds) ==
    IF chatIds = <<>> THEN <<>>
    ELSE Pages(Front(chatIds)) \o fetchMessages(Last(chatIds), MESSAGES_PER_CHANNEL, NoDate)

\* the feed a loadInitial yields when it runs alone, with excluded as
\* excludedChatIds, and every fetch returns its page
LoadInitialResult(excluded) ==
    LoadFeedMessagesMerge([feed |-> InitialFeed, messages |-> {}],
                          Pages(ChannelAndGroupIds(excluded)), excluded).feed

----------------------------------------------------------------------------
\* C1: after every merge (loadFeedMessages, loadMoreFeedMessages) the
\* canonical timeline is sorted non-decreasing by timestamp and holds no
\* composite key twice.  The canonical timeline is written by merges only,
\* so this is an invariant of allMessageIds.
C1_CanonicalSortedUnique ==
    /\ SortedByTimestamp(canonicalTimeline)
    /\ NoDuplicateKeys(canonicalTimeline)

\* a pagination merge has written the timeline: a1 is older than a's first
\* page, and the album's representative stands before the later message
C1_Witness ==
    /\ loads = <<>>
    /\ <<"a", 1>> \in KeySet(canonicalTimeline)
    /\ Len(canonicalTimeline) >= 3

\* C2: at most one load (loadFeedMessages or loadMoreFeedMessages) has been
\* started and has not yet finished.
C2_SingleLoadInFlight == Cardinality(InFlight) <= 1

\* C3: a key that is in the canonical timeline stays in it.
C3_CanonicalNeverShrinks ==
    [][KeySet(canonicalTimeline) \subseteq KeySet(global'.feed.allMessageIds)]_vars

\* C4: when a fetch of a load was rejected, the items the other fetches of
\* the load returned are in the canonical timeline once all of its fetches
\* have settled (stated for the gateway without albums, where consolidation
\* removes nothing).
C4_PartialResultsMerged ==
    [][\A i \in 1..MaxLoads, chatId \in ChannelList, outcome \in Outcomes :
        (/\ gateway = "plain"
         /\ FetchSettled(i, chatId, outcome)
         /\ Settle(global, loads[i], chatId, outcome).load.pending = {}
         /\ Settle(global, loads[i], chatId, outcome).load.failed)
        => KeySet(Settle(global, loads[i], chatId, outcome).load.messages)
                \subseteq KeySet(global'.feed.allMessageIds)]_vars

\* C5: once every fetch a load issued has settled, the flag the load set is
\* false again: with no fetch outstanding neither flag is set.
C5_FlagsClearedWhenSettled ==
    loads = <<>> => (~global.feed.isLoading /\ ~global.feed.isLoadingMore)

\* C6: the filtered timeline is a subsequence of the canonical timeline.
C6_FilteredIsSubsequence == IsSubsequence(filteredTimeline, canonicalTimeline)

\* a filter is in effect: the filtered timeline is a proper, non-empty part
C6_Witness ==
    /\ global.feed.excludedChatIds # <<>>
    /\ filteredTimeline # <<>>
    /\ Len(filteredTimeline) < Len(canonicalTimeline)

\* C7: after every operation the filtered timeline is the canonical
\* timeline without the items of the sources in excludedChatIds.
C7_FilteredIsRecomputed ==
    filteredTimeline = WithoutSources(canonicalTimeline, Range(global.feed.excludedChatIds))

\* C8: applyFeedFilter of an existing preset sets excludedChatIds and
\* activeFilterId from the preset, sets the filtered timeline to the
\* canonical one without the preset's sources, issues no fetch and leaves
\* the canonical timeline, the presets, the loading flags, the message
\* store and localStorage as they were.
C8_ApplyFilterEffect ==
    [][\A filterId \in FilterIds :
        (ApplyFeedFilter(filterId) /\ HasFilter(filterId)) =>
            /\ global'.feed.excludedChatIds = TheFilter(filterId).excludedChatIds
            /\ global'.feed.activeFilterId = filterId
            /\ global'.feed.messageIds =
                    WithoutSources(canonicalTimeline, Range(TheFilter(filterId).excludedChatIds))
            /\ global'.feed.allMessageIds = canonicalTimeline
            /\ global'.feed.savedFilters = global.feed.savedFilters
            /\ global'.feed.isLoading = global.feed.isLoading
            /\ global'.feed.isLoadingMore = global.feed.isLoadingMore
            /\ global'.messages = global.messages
            /\ loads' = loads
            /\ localStorage' = localStorage]_vars

\* a preset that excludes a source has been applied to a timeline that
\* holds items of that source
C8_Witness ==
    /\ global.feed.activeFilterId # undefined
    /\ HasFilter(global.feed.activeFilterId)
    /\ global.feed.excludedChatIds = TheFilter(global.feed.activeFilterId).excludedChatIds
    /\ global.feed.excludedChatIds # <<>>
    /\ \E key \in KeySet(canonicalTimeline) : key[1] \in Range(global.feed.excludedChatIds)
    /\ filteredTimeline = WithoutSources(canonicalTimeline, Range(global.feed.excludedChatIds))

\* C9: in a state as loadInitial leaves it while E1 is excluded, applying a
\* preset that excludes E2 yields the filtered timeline of a loadInitial
\* with E2 excluded, and clearFeedFilter that of a loadInitial with nothing
\* excluded (compared as sets of keys).
C9_FilterSwitchEqualsReload ==
    [][(/\ loads = <<>>
        /\ canonicalTimeline # <<>>
        /\ canonicalTimeline = LoadInitialResult(global.feed.excludedChatIds).allMessageIds)
       => /\ ClearFeedFilter =>
                KeySet(global'.feed.messageIds) = KeySet(LoadInitialResult(<<>>).messageIds)
          /\ \A filterId \in FilterIds :
                (ApplyFeedFilter(filterId) /\ HasFilter(filterId)) =>
                    KeySet(global'.feed.messageIds) =
                        KeySet(LoadInitialResult(TheFilter(filterId).excludedChatIds).messageIds)]_vars

\* C10: applying a preset twice in a row yields the filtered timeline,
\* excludedChatIds and activeFilterId of applying it once.
C10_ApplyFilterIdempotent ==
    \A filterId \in FilterIds :
        LET once == applyFeedFilter(global.feed, filterId)
            twice == applyFeedFilter(once, filterId)
        IN /\ twice.messageIds = once.messageIds
           /\ twice.excludedChatIds = once.excludedChatIds
           /\ twice.activeFilterId = once.activeFilterId

\* a preset that excludes a source is applied a second time: it is active,
\* and the first application has removed items
C10_Witness ==
    /\ global.feed.activeFilterId \in FilterIds
    /\ HasFilter(global.feed.activeFilterId)
    /\ TheFilter(global.feed.activeFilterId).excludedChatIds # <<>>
    /\ Len(filteredTimeline) < Len(canonicalTimeline)
    /\ applyFeedFilter(global.feed, global.feed.activeFilterId) = global.feed

\* C11: clearFeedFilter, from any state, leaves excludedChatIds empty,
\* activeFilterId undefined and the filtered timeline equal to the canonical
\* timeline.
C11_ClearFilterEffect ==
    [][ClearFeedFilter =>
        /\ global'.feed.excludedChatIds = <<>>
        /\ global'.feed.activeFilterId = undefined
        /\ global'.feed.messageIds = global'.feed.allMessageIds
        /\ global'.feed.allMessageIds = canonicalTimeline]_vars

\* clearFeedFilter has just run on a loaded timeline with a preset saved
C11_Witness ==
    /\ used.last = "ClearFeedFilter"
    /\ global.feed.savedFilters # <<>>
    /\ canonicalTimeline # <<>>
    /\ filteredTimeline = canonicalTimeline
    /\ global.feed.excludedChatIds = <<>>

\* the fetch of chatId in load i settles and the handler runs to its merge
Merges(i, chatId, outcome) ==
    /\ FetchSettled(i, chatId, outcome)
    /\ LET ld == Settle(global, loads[i], chatId, outcome).load
       IN /\ ld.pending = {}
          /\ ~ld.failed
          /\ ld.kind = "loadMoreFeedMessages" => ld.messages # <<>>

\* the keys of the messages that merge consolidates
MergedInput(i, chatId, outcome) ==
    LET ld == Settle(global, loads[i], chatId, outcome).load
    IN IF ld.kind = "loadMoreFeedMessages"
       THEN KeySet(ld.messages) \cup KeySet(existingMessages(ld.state))
       ELSE KeySet(ld.messages)

GroupOf(key) == M(key).groupedId

\* C12: after a merge (loadFeedMessages or loadMoreFeedMessages) no two
\* items of the canonical timeline carry the same groupId, and every group
\* of the merged input has exactly one item in the canonical timeline.
C12_OneRepresentativePerGroup ==
    [][\A i \in 1..MaxLoads, chatId \in ChannelList, outcome \in Outcomes :
        Merges(i, chatId, outcome) =>
            LET after == global'.feed.allMessageIds
                Carrying(g) == {n \in 1..Len(after) : GroupOf(after[n]) = g}
            IN /\ \A n \in 1..Len(after) :
                    GroupOf(after[n]) # "" => Cardinality(Carrying(GroupOf(after[n]))) = 1
               /\ \A key \in MergedInput(i, chatId, outcome) :
                    GroupOf(key) # "" => Cardinality(Carrying(GroupOf(key))) = 1]_vars

\* a merge has consolidated the two fetched members of album g1 into one
C12_Witness ==
    /\ gateway = "groups"
    /\ used.last = "FetchSettled"
    /\ loads = <<>>
    /\ {<<"a", 2>>, <<"a", 3>>} \subseteq global.messages
    /\ <<"a", 3>> \in KeySet(canonicalTimeline)
    /\ <<"a", 2>> \notin KeySet(canonicalTimeline)

\* the sorted messages that merge hands to the album consolidation
ConsolidatorInput(i, chatId, outcome) ==
    LET ld == Settle(global, loads[i], chatId, outcome).load
    IN IF ld.kind = "loadMoreFeedMessages"
       THEN SortByDate(Lookup(UniqueByKey(MapKeys(
                SortByDate(Lookup(ld.messages \o existingMessages(ld.state)))))))
       ELSE SortByDate(Lookup(ld.messages))

\* the text the representative of the group has to carry: of the first
\* member with text, else of the first later standalone text item
ExpectedText(input, groupId) ==
    LET members == SelectSeq(input, LAMBDA m : m.groupedId = groupId)
        withText == SelectSeq(members, LAMBDA m : m.text # "")
        later == SelectSeq(input, LAMBDA m : /\ m.groupedId = ""
                                             /\ m.text # ""
                                             /\ m.date > MaxDate(members))
    IN IF withText # <<>> THEN <<withText[1].text>>
       ELSE IF later # <<>> THEN <<later[1].text>>
       ELSE <<>>

\* C13: in every merge, the representative of every group of the
\* consolidator's input carries the text of the first member with text if
\* there is one, and else the text of the first standalone text item later
\* than the group's maximum date if there is one.
C13_RepresentativeText ==
    [][\A i \in 1..MaxLoads, chatId \in ChannelList, outcome \in Outcomes :
        Merges(i, chatId, outcome) =>
            LET input == ConsolidatorInput(i, chatId, outcome)
                output == Consolidate(input)
            IN \A g \in Range(GroupIds(input)) :
                ExpectedText(input, g) # <<>> =>
                    \E n \in 1..Len(output) :
                        /\ output[n].groupedId = g
                        /\ output[n].text = ExpectedText(input, g)[1]]_vars

----------------------------------------------------------------------------
(* The feed with a preset applied: the state the program is in after the    *)
(* mount load has completed, a chat was excluded in the settings dialog,    *)
(* the exclusion was saved as a preset and the preset was applied.          *)

AppliedFeed(chatId) ==
    applyFeedFilter(
        saveFeedFilter(toggleFeedChannelExclusion(LoadInitialResult(<<>>), chatId), <<"N">>, 1),
        1)

InitFiltered ==
    /\ gateway \in Worlds
    /\ \E chatId \in ChannelList :
        global = [feed |-> AppliedFeed(chatId),
                  messages |-> KeySet(Pages(ChannelAndGroupIds(<<>>)))]
    /\ loads = <<>>
    /\ mounted = TRUE
    /\ props = mapStateToProps(global)
    /\ now = 1
    /\ localStorage = global.feed.savedFilters
    /\ used = [ops |-> 0, failures |-> 0, last |-> "ApplyFeedFilter"]
    /\ view = NoView

NextFiltered ==
    \/ Render
    \/ PollTick
    \/ PullToRefresh
    \/ HandleScroll
    \/ \E i \in 1..MaxLoads, chatId \in ChannelList, outcome \in Outcomes :
            FetchSettled(i, chatId, outcome)
    \/ \E chatId \in ChannelList : ToggleFeedChannelExclusion(chatId)
    \/ \E filterId \in FilterIds : ApplyFeedFilter(filterId)
    \/ ClearFeedFilter

SpecFiltered == InitFiltered /\ [][NextFiltered]_vars

\* C14: a loadMoreFeedMessages that fetched a new message leaves, where no
\* message is grouped, exactly the keys of the canonical timeline as it was
\* when the handler started together with the fetched keys in the canonical
\* timeline, and the oldest of them first.
C14_LoadMoreKeepsCanonical ==
    [][\A i \in 1..MaxLoads, chatId \in ChannelList, outcome \in Outcomes :
        (/\ gateway = "plain"
         /\ Merges(i, chatId, outcome)
         /\ loads[i].kind = "loadMoreFeedMessages")
        => LET ld == Settle(global, loads[i], chatId, outcome).load
               union == KeySet(ld.state.feed.allMessageIds) \cup KeySet(ld.messages)
               after == global'.feed.allMessageIds
           IN /\ KeySet(after) = union
              /\ \A key \in union : M(after[1]).date <= M(key).date]_vars

\* the fetch of chatId in load i settles and loadMoreFeedMessages ends on
\* its newMessages.length === 0 branch
EndsWithNothingNew(i, chatId, outcome) ==
    /\ FetchSettled(i, chatId, outcome)
    /\ LET ld == Settle(global, loads[i], chatId, outcome).load
       IN /\ ld.kind = "loadMoreFeedMessages"
          /\ ld.pending = {}
          /\ ~ld.failed
          /\ ld.messages = <<>>

\* C15: when a loadMoreFeedMessages ends with no new message, the feed is
\* what the other operations have made it in the meantime, with
\* isLoadingMore false.
C15_NothingNewIsNoOp ==
    [][\A i \in 1..MaxLoads, chatId \in ChannelList, outcome \in Outcomes :
        EndsWithNothingNew(i, chatId, outcome) =>
            global'.feed = [global.feed EXCEPT !.isLoadingMore = FALSE]]_vars

\* handleScroll dispatches loadMoreFeedMessages (its own check, made on the
\* props of the last render, has passed)
ScrollDispatches ==
    /\ HandleScroll
    /\ ~props.isLoadingMore /\ ~props.isLoading /\ props.messageIdsLength > 0

\* C16 as stated: loadMoreFeedMessages dispatched while isLoading or
\* isLoadingMore is set, or while the filtered timeline is empty, issues no
\* fetch and leaves the global state as it is.
C16_NoOpInFlightOrEmpty ==
    [][(/\ ScrollDispatches
        /\ \/ global.feed.isLoading
           \/ global.feed.isLoadingMore
           \/ filteredTimeline = <<>>)
       => (global' = global /\ loads' = loads)]_vars

\* C16 amended: loadMoreFeedMessages dispatched while isLoading or
\* isLoadingMore is set issues no fetch and leaves the global state as it is.
C16_NoOpInFlight ==
    [][(/\ ScrollDispatches
        /\ \/ global.feed.isLoading
           \/ global.feed.isLoadingMore)
       => (global' = global /\ loads' = loads)]_vars

\* handleScroll has just dispatched loadMoreFeedMessages while a
\* loadFeedMessages was running (every other path out of the handler needs
\* isLoading to be false)
C16_Witness ==
    /\ used.last = "HandleScroll"
    /\ global.feed.isLoading
    /\ ~global.feed.isLoadingMore
    /\ loads # <<>>
    /\ \A i \in 1..Len(loads) : loads[i].kind = "loadFeedMessages"

\* the global state once every fetch of load ld has returned its page, the
\* fetches settling in the order of chatIds
RECURSIVE SettleAll(_, _, _)
SettleAll(g, ld, chatIds) ==
    IF chatIds = <<>> THEN g
    ELSE LET r == Settle(g, ld, Head(chatIds), "messages")
         IN SettleAll(r.global, r.load, Tail(chatIds))

\* the feed once the handler whose start gave st (from Store) has run to
\* its end
FeedWhenComplete(st) ==
    IF Len(st.loads) > Len(loads)
    THEN SettleAll(st.global, Last(st.loads),
                   SelectSeq(ActiveChatIds, LAMBDA c : c \in Last(st.loads).pending)).feed
    ELSE st.global.feed

\* C17: loadMoreFeedMessages dispatched on an empty timeline (no load
\* running) ends, once its fetches have completed, with the timelines,
\* excludedChatIds, isLoading and isLoadingMore that loadFeedMessages ends
\* with from the same state.
C17_LoadMoreOnEmptyIsLoadInitial ==
    [][(/\ ScrollDispatches
        /\ loads = <<>>
        /\ ~global.feed.isLoading /\ ~global.feed.isLoadingMore
        /\ filteredTimeline = <<>>)
       => LET more == FeedWhenComplete(LoadMoreStart(Store))
              initial == FeedWhenComplete(LoadFeedMessagesStart(Store))
          IN /\ more.allMessageIds = initial.allMessageIds
             /\ more.messageIds = initial.messageIds
             /\ more.excludedChatIds = initial.excludedChatIds
             /\ more.isLoading = initial.isLoading
             /\ more.isLoadingMore = initial.isLoadingMore]_vars

\* the place of key in ids
IndexOf(ids, key) == CHOOSE n \in 1..Len(ids) : ids[n] = key

\* C18: two keys that are in the filtered timeline when
\* loadMoreFeedMessages starts and when it has merged stand in the same
\* order in both.
C18_LoadMoreKeepsOrder ==
    [][\A i \in 1..MaxLoads, chatId \in ChannelList, outcome \in Outcomes :
        (Merges(i, chatId, outcome) /\ loads[i].kind = "loadMoreFeedMessages")
        => LET before == loads[i].state.feed.messageIds
               after == global'.feed.messageIds
           IN \A k1, k2 \in KeySet(before) \cap KeySet(after) :
                IndexOf(before, k1) < IndexOf(before, k2)
                    => IndexOf(after, k1) < IndexOf(after, k2)]_vars

----------------------------------------------------------------------------
(* The presets across sessions.  localStorage holds the array that the     *)
(* stored JSON text denotes: the program is the only writer of the key and *)
(* a preset is strings and an array of strings, which JSON.stringify and   *)
(* JSON.parse give back unchanged.                                          *)

\* two ids that no saveFeedFilter makes: the empty string and a string of
\* 100 characters
EmptyId == -1000
LongId == -1001

\* the characters of an id; the id n is `filter_${Date.now()}` at time n
filterIdLength(id) ==
    CASE id = EmptyId -> 0
      [] id = LongId -> 100
      [] OTHER -> Len("filter_") + Len(ToString(id))

\* isValidFilter without the checks of the name (lines 25-27)
isValidFilterAnyName(filter) ==
    /\ DOMAIN filter = {"id", "name", "excludedChatIds"}
    /\ filterIdLength(filter.id) > 0
    /\ filterIdLength(filter.id) < 100
    /\ Len(filter.excludedChatIds) <= MAX_EXCLUDED_CHATS
    /\ \A i \in 1..Len(filter.excludedChatIds) :
            /\ Len(filter.excludedChatIds[i]) > 0
            /\ Len(filter.excludedChatIds[i]) < 100

\* a stored entry is a record; a field that is missing has the type
\* undefined, which fails the typeof and Array.isArray checks
isValidFilter(filter) ==
    /\ "id" \in DOMAIN filter
    /\ "name" \in DOMAIN filter
    /\ "excludedChatIds" \in DOMAIN filter
    /\ filterIdLength(filter.id) > 0
    /\ filterIdLength(filter.id) < 100
    /\ Len(filter.name) > 0
    /\ Len(filter.name) <= MAX_FILTER_NAME_LENGTH
    /\ Len(filter.excludedChatIds) <= MAX_EXCLUDED_CHATS
    /\ \A i \in 1..Len(filter.excludedChatIds) :
            /\ Len(filter.excludedChatIds[i]) > 0
            /\ Len(filter.excludedChatIds[i]) < 100

\* loadFiltersFromStorage: the presets it returns and what it leaves in
\* localStorage; write is the outcome of the write of line 75
loadFiltersFromStorage(storage, write) ==
    LET validFilters == SelectSeq(storage, isValidFilter)
    IN [filters |-> slice(validFilters, MAX_FILTERS),
        storage |-> IF Len(validFilters) # Len(storage)
                    THEN saveFiltersToStorage(storage, validFilters, write)
                    ELSE storage]

\* the dialog's channelList of an account that follows one channel more
\* than MAX_EXCLUDED_CHATS
channelList == [i \in 1..(MAX_EXCLUDED_CHATS + 1) |-> ToString(i)]

\* filteredChannelList: the channels whose title matches the search query,
\* here the first n of the list
filteredChannelList(n) == slice(channelList, n)
ListSizes == {1, MAX_EXCLUDED_CHATS + 1}

\* the toggles that handleSelectAll and handleDeselectAll dispatch, one
\* toggleFeedChannelExclusion for each id of a list without repetitions:
\* the ids that were excluded are removed, the others are appended in order
ToggleEach(feed, chatIds) ==
    LET excluded == Range(feed.excludedChatIds)
        toggled == Range(chatIds)
    IN [feed EXCEPT !.excludedChatIds =
            SelectSeq(@, LAMBDA id : id \notin toggled)
            \o SelectSeq(chatIds, LAMBDA id : id \notin excluded)]

handleSelectAll(feed, list) ==
    LET excluded == Range(feed.excludedChatIds)
    IN ToggleEach(feed, SelectSeq(list, LAMBDA id : id \in excluded))

handleDeselectAll(feed, list) ==
    LET excluded == Range(feed.excludedChatIds)
    IN ToggleEach(feed, SelectSeq(list, LAMBDA id : id \notin excluded))

HandleSelectAll(n) ==
    /\ Edit("HandleSelectAll")
    /\ SetFeed(handleSelectAll(global.feed, filteredChannelList(n)))
    /\ UNCHANGED <<view, gateway, loads, mounted, props, now, localStorage>>

HandleDeselectAll(n) ==
    /\ Edit("HandleDeselectAll")
    /\ SetFeed(handleDeselectAll(global.feed, filteredChannelList(n)))
    /\ UNCHANGED <<view, gateway, loads, mounted, props, now, localStorage>>

\* the application is started again and the feed opened: the presets of the
\* new session are those loadFiltersFromStorage returns, the rest of the
\* feed state starts afresh
NewSession(write) ==
    /\ used.ops < MaxOps
    /\ loads = <<>>
    /\ LET r == loadFiltersFromStorage(localStorage, write)
       IN /\ global' = [feed |-> [InitialFeed EXCEPT !.savedFilters = r.filters],
                        messages |-> {}]
          /\ localStorage' = r.storage
    /\ used' = [used EXCEPT !.ops = @ + 1, !.last = "NewSession"]
    /\ UNCHANGED <<view, gateway, loads, mounted, props, now>>

\* the feed is open, its first load has failed and left it empty
InitPresets ==
    /\ gateway = "plain"
    /\ global = [feed |-> InitialFeed, messages |-> {}]
    /\ loads = <<>>
    /\ mounted = TRUE
    /\ props = mapStateToProps([feed |-> InitialFeed, messages |-> {}])
    /\ now = 0
    /\ localStorage = <<>>
    /\ used = [ops |-> 0, failures |-> 1, last |-> "FetchSettled"]
    /\ view = NoView

NextPresets ==
    \/ \E chatId \in Range(filteredChannelList(2)) : ToggleFeedChannelExclusion(chatId)
    \/ \E n \in ListSizes : HandleSelectAll(n)
    \/ \E n \in ListSizes : HandleDeselectAll(n)
    \/ \E name \in NameInputs, write \in SpecWrites : SaveFeedFilter(name, write)
    \/ \E filterId \in FilterIds, write \in SpecWrites : DeleteFeedFilter(filterId, write)
    \/ \E filterId \in FilterIds, newName \in NameInputs, write \in SpecWrites :
            RenameFeedFilter(filterId, newName, write)
    \/ \E filterId \in FilterIds, write \in SpecWrites : UpdateFeedFilter(filterId, write)
    \/ \E filterId \in FilterIds : ApplyFeedFilter(filterId)
    \/ \E write \in SpecWrites : NewSession(write)

SpecPresets == InitPresets /\ [][NextPresets]_vars

\* C20: while every write to localStorage succeeds, loadFiltersFromStorage
\* in a later session returns each preset of the in-memory collection (the
\* saved ones that were not deleted) with the same id, name and excluded ids.
C20_PresetsPersist ==
    LET loaded == loadFiltersFromStorage(localStorage, "ok").filters
    IN \A i \in 1..Len(global.feed.savedFilters) :
            \E j \in 1..Len(loaded) : loaded[j] = global.feed.savedFilters[i]

\* C21: every preset of the saved collection has at most MAX_EXCLUDED_CHATS
\* excluded chat ids, whatever toggles, saves and updates came before.
C21_PresetExcludedCapped ==
    \A i \in 1..Len(global.feed.savedFilters) :
        Len(global.feed.savedFilters[i].excludedChatIds) <= MAX_EXCLUDED_CHATS

----------------------------------------------------------------------------
(* The preset collection at its limit, with writes to localStorage that   *)
(* may fail.  The presets of earlier sessions carry the times of their    *)
(* saving, which lie before the time 0 at which the model starts.         *)

\* n presets saved before, the last one at time 0
EarlierFilters(n) ==
    [i \in 1..n |-> [id |-> i - n, name |-> <<"N">>, excludedChatIds |-> <<>>]]

\* the ids the dialog can name: the last preset saved before and the new ones
StorageFilterIds == 0..MaxTime

\* the feed is open and empty (its first load has failed); the collection
\* holds one preset less than MAX_FILTERS, or MAX_FILTERS, all persisted
InitStorage ==
    /\ gateway = "plain"
    /\ \E n \in {MAX_FILTERS - 1, MAX_FILTERS} :
        /\ global = [feed |-> [InitialFeed EXCEPT !.savedFilters = EarlierFilters(n)],
                     messages |-> {}]
        /\ localStorage = EarlierFilters(n)
    /\ loads = <<>>
    /\ mounted = TRUE
    /\ props = mapStateToProps([feed |-> InitialFeed, messages |-> {}])
    /\ now = 0
    /\ used = [ops |-> 0, failures |-> 1, last |-> "FetchSettled"]
    /\ view = NoView

NextStorage ==
    \/ \E chatId \in ChannelList : ToggleFeedChannelExclusion(chatId)
    \/ \E name \in NameInputs, write \in Writes : SaveFeedFilter(name, write)
    \/ \E filterId \in StorageFilterIds, write \in Writes : DeleteFeedFilter(filterId, write)
    \/ \E filterId \in StorageFilterIds, newName \in NameInputs, write \in Writes :
            RenameFeedFilter(filterId, newName, write)
    \/ \E filterId \in StorageFilterIds, write \in Writes : UpdateFeedFilter(filterId, write)
    \/ \E filterId \in StorageFilterIds : ApplyFeedFilter(filterId)
    \/ \E write \in Writes : NewSession(write)

SpecStorage == InitStorage /\ [][NextStorage]_vars

\* C22: the collection never holds more than MAX_FILTERS presets, in memory
\* and in localStorage; saveFeedFilter on a collection of MAX_FILTERS
\* presets changes neither; activeFilterId names at most one preset.
C22_AtMostMaxFilters ==
    [][/\ Len(global.feed.savedFilters) <= MAX_FILTERS
       /\ Len(localStorage) <= MAX_FILTERS
       /\ Len(global'.feed.savedFilters) <= MAX_FILTERS
       /\ Len(localStorage') <= MAX_FILTERS
       /\ (used'.last = "SaveFeedFilter" /\ Len(global.feed.savedFilters) = MAX_FILTERS)
            => (global' = global /\ localStorage' = localStorage)
       /\ Cardinality({i \in 1..Len(global'.feed.savedFilters) :
                global'.feed.savedFilters[i].id = global'.feed.activeFilterId}) <= 1]_vars

\* saveFeedFilter has just been dispatched on a full collection
C22_Witness ==
    /\ used.last = "SaveFeedFilter"
    /\ now = 0
    /\ Len(global.feed.savedFilters) = MAX_FILTERS
    /\ Len(localStorage) = MAX_FILTERS

\* the empty name and the name of one space
BlankNames == {<<>>, <<" ">>}

\* C23: saveFeedFilter with an empty or whitespace-only name, and
\* renameFeedFilter with such a new name, change neither the global state
\* (presets, activeFilterId, exclusions, timelines) nor localStorage.
C23_BlankNameRejected ==
    [][(\/ \E name \in BlankNames, write \in Writes : SaveFeedFilter(name, write)
        \/ \E filterId \in FilterIds, newName \in BlankNames, write \in Writes :
                RenameFeedFilter(filterId, newName, write))
       => (global' = global /\ localStorage' = localStorage)]_vars

\* a save was dispatched with chats excluded and nothing was saved
C23_Witness ==
    /\ used.last = "SaveFeedFilter"
    /\ now = 0
    /\ global.feed.excludedChatIds # <<>>
    /\ global.feed.savedFilters = <<>>
    /\ localStorage = <<>>

\* C24: for save, rename, update and delete of a preset the feed state after
\* the handler is the one the handler computes, whatever the write to
\* localStorage did (ok, quota exceeded, quota exceeded twice, other error).
C24_WriteFailureDoesNotBlock ==
    [][\A write \in Writes :
        /\ \A name \in NameInputs :
                SaveFeedFilter(name, write)
                    => global'.feed = saveFeedFilter(global.feed, name, now + 1)
        /\ \A filterId \in StorageFilterIds, newName \in NameInputs :
                RenameFeedFilter(filterId, newName, write)
                    => global'.feed = renameFeedFilter(global.feed, filterId, newName)
        /\ \A filterId \in StorageFilterIds :
                UpdateFeedFilter(filterId, write)
                    => global'.feed = updateFeedFilter(global.feed, filterId)
        /\ \A filterId \in StorageFilterIds :
                DeleteFeedFilter(filterId, write)
                    => global'.feed = deleteFeedFilter(global.feed, filterId)]_vars

\* a preset has just been saved in memory while its write failed: the
\* store still holds the presets of before
C24_Witness ==
    /\ used.last = "SaveFeedFilter"
    /\ now = 1
    /\ Len(global.feed.savedFilters) = MAX_FILTERS
    /\ localStorage = EarlierFilters(MAX_FILTERS - 1)

\* the writes that fail at first and whose retry, when made, succeeds
RetriedWrites == {"quota", "error"}

\* a step of a handler that calls saveFiltersToStorage with this outcome
WritesPresets(write) ==
    \/ \E name \in NameInputs :
            SaveFeedFilter(name, write) /\ ~saveFeedFilterRejects(global.feed, name)
    \/ \E filterId \in StorageFilterIds, newName \in NameInputs :
            RenameFeedFilter(filterId, newName, write) /\ ~renameFeedFilterRejects(newName)
    \/ \E filterId \in StorageFilterIds : UpdateFeedFilter(filterId, write)
    \/ \E filterId \in StorageFilterIds : DeleteFeedFilter(filterId, write)

\* C25: a write of the collection that fails, with whatever error, is tried
\* once more with fewer presets; when that retry succeeds localStorage holds
\* the reduced collection, all of whose presets are in the collection.
C25_FailedWriteRetried ==
    [][\A write \in RetriedWrites :
        WritesPresets(write) =>
            /\ localStorage' = reducedFilters(global'.feed.savedFilters)
            /\ Range(localStorage') \subseteq Range(global'.feed.savedFilters)]_vars

----------------------------------------------------------------------------
(* loadFiltersFromStorage on any content of the key.  Here localStorage is *)
(* what getItem and JSON.parse make of the text under the key:             *)
(*   [kind |-> "null"]        nothing stored, or the empty text             *)
(*   [kind |-> "unparsable"]  text for which JSON.parse throws              *)
(*   [kind |-> "notArray"]    a JSON value that is not an array             *)
(*   [kind |-> "array"]       an array, its entries in value                *)

Stored(kind, value) == [kind |-> kind, value |-> value]

\* lines 57-67 and 79-88; for an array the rest of the function
loadFromStored(stored, write) ==
    CASE stored.kind = "null" -> [filters |-> <<>>, stored |-> stored]
      [] stored.kind = "notArray" -> [filters |-> <<>>, stored |-> stored]
      [] stored.kind = "unparsable" -> [filters |-> <<>>, stored |-> Stored("null", <<>>)]
      [] OTHER ->
            LET r == loadFiltersFromStorage(stored.value, write)
            IN [filters |-> r.filters, stored |-> Stored("array", r.storage)]

\* a name and a list of chat ids of a given length
NameOfLength(n) == [i \in 1..n |-> "n"]
ChatIdsOfLength(n) == [i \in 1..n |-> ToString(i)]
LongChatId == "cccccccccccccccccccccccccccccccccccccccccccccccccccccccccccccccccccccccccccccccccccccccccccccccccccc"

\* the entries a stored array is made of: two valid ones (the second at the
\* limits) and entries with one defect each
StoredEntries ==
    {[id |-> 1, name |-> <<"N">>, excludedChatIds |-> <<"a">>],
     [id |-> 2, name |-> NameOfLength(MAX_FILTER_NAME_LENGTH),
                excludedChatIds |-> ChatIdsOfLength(MAX_EXCLUDED_CHATS)],
     [id |-> EmptyId, name |-> <<"N">>, excludedChatIds |-> <<>>],
     [id |-> LongId, name |-> <<"N">>, excludedChatIds |-> <<>>],
     [name |-> <<"N">>, excludedChatIds |-> <<>>],
     [id |-> 3, name |-> <<>>, excludedChatIds |-> <<>>],
     [id |-> 3, name |-> NameOfLength(MAX_FILTER_NAME_LENGTH + 1), excludedChatIds |-> <<>>],
     [id |-> 3, excludedChatIds |-> <<>>],
     [id |-> 3, name |-> <<"N">>],
     [id |-> 3, name |-> <<"N">>, excludedChatIds |-> ChatIdsOfLength(MAX_EXCLUDED_CHATS + 1)],
     [id |-> 3, name |-> <<"N">>, excludedChatIds |-> <<"">>],
     [id |-> 3, name |-> <<"N">>, excludedChatIds |-> <<LongChatId>>]}

\* the stored arrays: up to two entries, and arrays of more than
\* MAX_FILTERS valid entries, alone and with an entry without id
StoredArrays ==
    {<<>>}
    \cup {<<e>> : e \in StoredEntries}
    \cup {<<e1, e2>> : e1 \in StoredEntries, e2 \in StoredEntries}
    \cup {EarlierFilters(MAX_FILTERS + 1),
          EarlierFilters(MAX_FILTERS + 1) \o <<[name |-> <<"N">>, excludedChatIds |-> <<>>]>>,
          <<[name |-> <<"N">>, excludedChatIds |-> <<>>]>> \o EarlierFilters(MAX_FILTERS + 1)}

StoredValues ==
    {Stored("null", <<>>), Stored("unparsable", <<>>), Stored("notArray", <<>>)}
    \cup {Stored("array", a) : a \in StoredArrays}

\* a session starts: the presets of the feed are what loadFiltersFromStorage
\* returns
StartSession(write) ==
    /\ used.ops < MaxOps
    /\ used.last # "StartSession"
    /\ LET r == loadFromStored(localStorage, write)
       IN /\ global' = [feed |-> [InitialFeed EXCEPT !.savedFilters = r.filters],
                        messages |-> {}]
          /\ localStorage' = r.stored
    /\ used' = [used EXCEPT !.ops = @ + 1, !.last = "StartSession"]
    /\ UNCHANGED <<view, gateway, loads, mounted, props, now>>

InitLoad ==
    /\ gateway = "plain"
    /\ global = [feed |-> InitialFeed, messages |-> {}]
    /\ loads = <<>>
    /\ mounted = FALSE
    /\ props = mapStateToProps([feed |-> InitialFeed, messages |-> {}])
    /\ now = 0
    /\ localStorage \in StoredValues
    /\ used = [ops |-> 0, failures |-> 0, last |-> "none"]
    /\ view = NoView

NextLoad == \E write \in Writes : StartSession(write)

SpecLoad == InitLoad /\ [][NextLoad]_vars

\* validation as the claim words it: a string id, a name of 1 to 100
\* characters, at most 500 excluded ids that are strings
StatedValid(entry) ==
    /\ {"id", "name", "excludedChatIds"} \subseteq DOMAIN entry
    /\ Len(entry.name) \in 1..MAX_FILTER_NAME_LENGTH
    /\ Len(entry.excludedChatIds) <= MAX_EXCLUDED_CHATS

\* validation with the lengths of the ids: the id and every excluded id has
\* 1 to 99 characters
CheckedValid(entry) ==
    /\ StatedValid(entry)
    /\ filterIdLength(entry.id) \in 1..99
    /\ \A chatId \in Range(entry.excludedChatIds) : Len(chatId) \in 1..99

----------------------------------------------------------------------------
(* useFeedVirtualization (part_000 1-102).  view is the state of the hook: *)
(* the length of items, scrollTop and containerHeight (useState), and the  *)
(* two options.  All lengths are whole pixels.                             *)

Max(a, b) == IF a > b THEN a ELSE b

\* Math.floor(a / b) and Math.ceil(a / b) for a >= 0 and b > 0
MathFloor(a, b) == a \div b
MathCeil(a, b) == IF a % b = 0 THEN a \div b ELSE (a \div b) + 1

\* the visible range with Math.floor in the place of Math.ceil (line 57)
visibleRangeFloorCount(hook) ==
    IF hook.itemsLength = 0
    THEN [startIndex |-> 0, endIndex |-> 0, offsetY |-> 0, totalHeight |-> 0]
    ELSE LET start == Max(0, MathFloor(hook.scrollTop, hook.estimatedItemHeight) - hook.overscan)
             visibleCount == MathFloor(hook.containerHeight, hook.estimatedItemHeight)
             end == MathFloor(hook.scrollTop, hook.estimatedItemHeight) + visibleCount
         IN [startIndex |-> start,
             endIndex |-> Min(hook.itemsLength, end + hook.overscan),
             offsetY |-> start * hook.estimatedItemHeight,
             totalHeight |-> hook.itemsLength * hook.estimatedItemHeight]

\* the useMemo of lines 45-70
visibleRange(hook) ==
    IF hook.itemsLength = 0
    THEN [startIndex |-> 0, endIndex |-> 0, offsetY |-> 0, totalHeight |-> 0]
    ELSE LET start == Max(0, MathFloor(hook.scrollTop, hook.estimatedItemHeight) - hook.overscan)
             visibleCount == MathCeil(hook.containerHeight, hook.estimatedItemHeight)
             end == MathFloor(hook.scrollTop, hook.estimatedItemHeight) + visibleCount
         IN [startIndex |-> start,
             endIndex |-> Min(hook.itemsLength, end + hook.overscan),
             offsetY |-> start * hook.estimatedItemHeight,
             totalHeight |-> hook.itemsLength * hook.estimatedItemHeight]

\* the hook after its layout effect has measured the container
InitWindow ==
    /\ gateway = "plain"
    /\ global = [feed |-> InitialFeed, messages |-> {}]
    /\ loads = <<>>
    /\ mounted = TRUE
    /\ props = mapStateToProps([feed |-> InitialFeed, messages |-> {}])
    /\ now = 0
    /\ localStorage = <<>>
    /\ used = [ops |-> 0, failures |-> 0, last |-> "none"]
    /\ \E n \in 0..MaxItems, clientHeight \in 0..MaxContainer,
          h \in 1..MaxItemHeight, o \in 0..MaxOverscan :
            view = [itemsLength |-> n, scrollTop |-> 0, containerHeight |-> clientHeight,
                    estimatedItemHeight |-> h, overscan |-> o]

\* handleScroll (lines 72-77)
HookHandleScroll(scrollTop) ==
    /\ view' = [view EXCEPT !.scrollTop = scrollTop]
    /\ used' = [used EXCEPT !.last = "HookHandleScroll"]
    /\ UNCHANGED <<gateway, global, loads, mounted, props, now, localStorage>>

\* updateHeight (lines 32-34), called by the ResizeObserver
UpdateHeight(clientHeight) ==
    /\ view' = [view EXCEPT !.containerHeight = clientHeight]
    /\ used' = [used EXCEPT !.last = "UpdateHeight"]
    /\ UNCHANGED <<gateway, global, loads, mounted, props, now, localStorage>>

\* the component renders the hook with another list of items
RenderItems(n) ==
    /\ view' = [view EXCEPT !.itemsLength = n]
    /\ used' = [used EXCEPT !.last = "RenderItems"]
    /\ UNCHANGED <<gateway, global, loads, mounted, props, now, localStorage>>

NextWindow ==
    \/ \E scrollTop \in 0..MaxScroll : HookHandleScroll(scrollTop)
    \/ \E clientHeight \in 0..MaxContainer : UpdateHeight(clientHeight)
    \/ \E n \in 0..MaxItems : RenderItems(n)

SpecWindow == InitWindow /\ [][NextWindow]_vars

\* C27: with f the floor of scrollTop / estimatedItemHeight and k the ceiling
\* of containerHeight / estimatedItemHeight, the window of a non-empty list
\* is startIndex = max(0, f - overscan), endIndex = min(itemCount, f + k +
\* overscan), topOffset = startIndex * h, totalHeight = itemCount * h; for
\* an empty list all four are 0.
C27_VisibleRange ==
    LET w == visibleRange(view)
        h == view.estimatedItemHeight
    IN IF view.itemsLength = 0
       THEN w = [startIndex |-> 0, endIndex |-> 0, offsetY |-> 0, totalHeight |-> 0]
       ELSE \E f \in 0..view.scrollTop, k \in 0..view.containerHeight :
                /\ f * h <= view.scrollTop /\ view.scrollTop < (f + 1) * h
                /\ (k - 1) * h < view.containerHeight /\ view.containerHeight <= k * h
                /\ w.startIndex = (IF f - view.overscan > 0 THEN f - view.overscan ELSE 0)
                /\ w.endIndex = (IF f + k + view.overscan < view.itemsLength
                                 THEN f + k + view.overscan ELSE view.itemsLength)
                /\ w.offsetY = w.startIndex * h
                /\ w.totalHeight = view.itemsLength * h

\* scrolled into a list: items are cut off above and below the window, and
\* the container is not a whole number of items high
C27_Witness ==
    /\ used.last = "HookHandleScroll"
    /\ visibleRange(view).startIndex > 0
    /\ visibleRange(view).endIndex < view.itemsLength
    /\ view.containerHeight % view.estimatedItemHeight # 0

----------------------------------------------------------------------------
(* The scroll adjustment of FeedColumn (FeedColumn.tsx 308-335).  view is  *)
(* the scroll container, the two refs of the effect and the tasks given to *)
(* fasterdom:                                                               *)
(*   length, scrollHeight, scrollTop   the rendered timeline               *)
(*   prevScrollHeightRef, prevMessageCountRef                               *)
(*   measure    the callbacks passed to requestMeasure, not yet run        *)
(*   mutation   the callbacks passed to requestMutation, not yet run       *)
(*   anchor     where scrollTop has to be for the item that was at the top *)
(*              of the viewport to be there still                          *)
(* fasterdom runs the pending measure callbacks, then the pending mutation *)
(* callbacks, in one pass; a callback requested during a pass waits for    *)
(* the next one.                                                           *)

SCROLL_ADJUST_LIMIT == 100    \* scrollTop < 100 (line 323)
InitialScrollHeight == 2000   \* the height of the timeline first shown
ItemHeights == {60, 350}      \* the height of a rendered item
ScrollPositions == {0, 50, 150}

\* the outer callback (lines 314-334) of the effect of a render with
\* messageIds.length = length
OuterMeasure(length) == [callback |-> "outer", length |-> length, heightDifference |-> 0]
\* the inner callback (lines 321-329)
InnerMeasure(heightDifference) ==
    [callback |-> "inner", length |-> 0, heightDifference |-> heightDifference]

\* one measure callback, run on the container as it is
runMeasure(v, task) ==
    IF task.callback = "outer"
    THEN LET heightDifference == v.scrollHeight - v.prevScrollHeightRef
             adjusts == task.length > v.prevMessageCountRef /\ v.prevScrollHeightRef > 0
         IN [v EXCEPT !.measure = IF adjusts THEN Append(@, InnerMeasure(heightDifference)) ELSE @,
                      !.prevScrollHeightRef = v.scrollHeight,
                      !.prevMessageCountRef = task.length]
    ELSE IF task.heightDifference > 0 /\ v.scrollTop < SCROLL_ADJUST_LIMIT
         THEN [v EXCEPT !.mutation = Append(@, task.heightDifference)]
         ELSE v

RECURSIVE runMeasures(_, _)
runMeasures(v, tasks) ==
    IF tasks = <<>> THEN v ELSE runMeasures(runMeasure(v, Head(tasks)), Tail(tasks))

\* container.scrollTop += heightDifference, for each pending mutation
RECURSIVE runMutations(_, _)
runMutations(v, tasks) ==
    IF tasks = <<>> THEN v
    ELSE runMutations([v EXCEPT !.scrollTop = @ + Head(tasks)], Tail(tasks))

\* one pass of fasterdom
updatePass(v) ==
    LET measured == runMeasures([v EXCEPT !.measure = <<>>], v.measure)
    IN runMutations([measured EXCEPT !.mutation = <<>>], measured.mutation)

Idle(v) == v.measure = <<>> /\ v.mutation = <<>>

\* a timeline is shown, the effect has run for it and the viewport is at
\* the top or near it
InitScroll ==
    /\ gateway = "plain"
    /\ global = [feed |-> InitialFeed, messages |-> {}]
    /\ loads = <<>>
    /\ mounted = TRUE
    /\ props = mapStateToProps([feed |-> InitialFeed, messages |-> {}])
    /\ now = 0
    /\ localStorage = <<>>
    /\ used = [ops |-> 0, failures |-> 0, last |-> "none"]
    /\ \E scrollTop \in ScrollPositions :
        view = [length |-> 1, scrollHeight |-> InitialScrollHeight, scrollTop |-> scrollTop,
                prevScrollHeightRef |-> InitialScrollHeight, prevMessageCountRef |-> 1,
                measure |-> <<>>, mutation |-> <<>>, anchor |-> scrollTop]

\* a loadMoreFeedMessages has completed and FeedColumn renders count older
\* items above the ones shown; the layout effect runs (lines 309-314, 335)
PrependOlder(count, height) ==
    /\ used.ops < MaxOps
    /\ view' = [view EXCEPT !.length = @ + count,
                            !.scrollHeight = @ + count * height,
                            !.anchor = IF view.scrollTop < SCROLL_ADJUST_LIMIT
                                       THEN @ + count * height ELSE @,
                            !.measure = Append(@, OuterMeasure(view.length + count))]
    /\ used' = [used EXCEPT !.ops = @ + 1, !.last = "PrependOlder"]
    /\ UNCHANGED <<gateway, global, loads, mounted, props, now, localStorage>>

UpdatePass ==
    /\ ~Idle(view)
    /\ view' = updatePass(view)
    /\ used' = [used EXCEPT !.last = "UpdatePass"]
    /\ UNCHANGED <<gateway, global, loads, mounted, props, now, localStorage>>

\* the user scrolls while no adjustment is pending
UserScroll(scrollTop) ==
    /\ Idle(view)
    /\ used.ops < MaxOps
    /\ view' = [view EXCEPT !.scrollTop = scrollTop, !.anchor = scrollTop]
    /\ used' = [used EXCEPT !.ops = @ + 1, !.last = "UserScroll"]
    /\ UNCHANGED <<gateway, global, loads, mounted, props, now, localStorage>>

NextScroll ==
    \/ \E count \in 1..PageLimit, height \in ItemHeights : PrependOlder(count, height)
    \/ UpdatePass
    \/ \E scrollTop \in ScrollPositions : UserScroll(scrollTop)

SpecScroll == InitScroll /\ [][NextScroll]_vars

\* C28: once the callbacks of the effect have run, scrollTop has grown by
\* the height of the older items that were prepended while the viewport was
\* near the top, so that the item that was at the top of the viewport is
\* there still; also when a second prepend comes before the callbacks of
\* the first have all run.
C28_ScrollAnchored == Idle(view) => view.scrollTop = view.anchor

\* C29: a tick of the polling timer in a state where isLoading or
\* isLoadingMore is set starts no load and changes nothing; a tick with
\* both flags clear starts loadFeedMessages.
C29_PollSkipsWhileLoading ==
    [][PollTick =>
        IF global.feed.isLoading \/ global.feed.isLoadingMore
        THEN global' = global /\ loads' = loads
        ELSE /\ Len(loads') = Len(loads) + 1
             /\ loads'[Len(loads')].kind = "loadFeedMessages"]_vars

\* C30: in every merge, a standalone item of the consolidator's input is in
\* the output unless a group without own text carries its text: only the
\* caption donors are dropped, whatever ids the items of other chats have.
C30_OnlyDonorsDropped ==
    [][\A i \in 1..MaxLoads, chatId \in ChannelList, outcome \in Outcomes :
        Merges(i, chatId, outcome) =>
            LET input == ConsolidatorInput(i, chatId, outcome)
                output == Consolidate(input)
                OwnText(g) == \E n \in 1..Len(input) :
                                input[n].groupedId = g /\ input[n].text # ""
            IN \A n \in 1..Len(input) :
                input[n].groupedId = "" =>
                    \/ \E k \in 1..Len(output) :
                            /\ output[k].chatId = input[n].chatId
                            /\ output[k].id = input[n].id
                    \/ \E k \in 1..Len(output) :
                            /\ output[k].groupedId # ""
                            /\ ~OwnText(output[k].groupedId)
                            /\ input[n].text # ""
                            /\ output[k].text = input[n].text]_vars

----------------------------------------------------------------------------
(* Caption donors *)

\* the standalone item n of input gave its text to the group item k of output
Donates(input, output, n, k) ==
    /\ input[n].groupedId = ""
    /\ input[n].text # ""
    /\ output[k].groupedId # ""
    /\ \A m \in 1..Len(input) :
            input[m].groupedId = output[k].groupedId => ~HasOwnText(input[m])
    /\ output[k].text = input[n].text

\* C31: in every merge, a standalone item of the consolidator's input gives
\* its text to at most one group, every donor is strictly later than the
\* maximum date of the group it gives its text to, and the representative
\* of a group that has a member with own text is that member, unchanged.
C31_DonorsOncePerPass ==
    [][\A i \in 1..MaxLoads, chatId \in ChannelList, outcome \in Outcomes :
        Merges(i, chatId, outcome) =>
            LET input == ConsolidatorInput(i, chatId, outcome)
                output == Consolidate(input)
            IN /\ \A n \in 1..Len(input) :
                    Cardinality({k \in 1..Len(output) : Donates(input, output, n, k)}) <= 1
               /\ \A n \in 1..Len(input), k \in 1..Len(output) :
                    Donates(input, output, n, k) =>
                        input[n].date > MaxDate(groupedMessages(input, output[k].groupedId))
               /\ \A k \in 1..Len(output) :
                    (/\ output[k].groupedId # ""
                     /\ \E m \in 1..Len(input) :
                            input[m].groupedId = output[k].groupedId /\ HasOwnText(input[m]))
                    => /\ output[k] \in Range(input)
                       /\ HasOwnText(output[k])]_vars

\* a merge has consolidated two albums without text and two later text
\* items: b's text item went to album g1 and album g2 got no text
C31_Witness ==
    /\ gateway = "donors"
    /\ used.last = "FetchSettled"
    /\ loads = <<>>
    /\ {<<"a", 1>>, <<"a", 2>>, <<"b", 1>>, <<"b", 2>>} \subseteq global.messages
    /\ LET output == Consolidate(SortByDate(Lookup(<<<<"a", 1>>, <<"a", 2>>, <<"b", 1>>, <<"b", 2>>>>)))
       IN /\ \E k \in 1..Len(output) : output[k].groupedId = "g1" /\ output[k].text = "b2"
          /\ \E k \in 1..Len(output) : output[k].groupedId = "g2" /\ output[k].text = ""
    /\ KeySet(canonicalTimeline) = {<<"a", 1>>, <<"b", 1>>}

\* FeedColumn.tsx 563 (and part_001 597): the message the store holds for
\* a key, which is the message as it was fetched
selectChatMessage(g, key) ==
    IF parseSearchResultKey(key) \in g.messages THEN <<M(key)>> ELSE <<>>

\* C32: after every merge, when a standalone text item of the
\* consolidator's input gave its text to a group representative and is
\* itself no longer in the timeline, the message that the feed renders for
\* the representative's key (read from the message store) carries that text.
C32_CaptionStaysVisible ==
    [][\A i \in 1..MaxLoads, chatId \in ChannelList, outcome \in Outcomes :
        Merges(i, chatId, outcome) =>
            LET input == ConsolidatorInput(i, chatId, outcome)
                output == Consolidate(input)
            IN \A n \in 1..Len(input), k \in 1..Len(output) :
                (/\ Donates(input, output, n, k)
                 /\ getSearchResultKey(input[n]) \notin KeySet(global'.feed.allMessageIds))
                => LET rendered == selectChatMessage(global', getSearchResultKey(output[k]))
                   IN /\ rendered # <<>>
                      /\ rendered[1].text = input[n].text]_vars

----------------------------------------------------------------------------
(* Pagination: the loads alone over a gateway where one chat's newest page *)
(* is later than the whole history of the other chat.                      *)

InitHistory ==
    /\ gateway = "history"
    /\ global = [feed |-> InitialFeed, messages |-> {}]
    /\ loads = <<>>
    /\ mounted = FALSE
    /\ props = mapStateToProps([feed |-> InitialFeed, messages |-> {}])
    /\ now = 0
    /\ localStorage = <<>>
    /\ used = [ops |-> 0, failures |-> 0, last |-> "none"]
    /\ view = NoView

SpecHistory == InitHistory /\ [][NextLoads]_vars

\* C33: for every eligible chat, the canonical timeline holds every
\* standalone message of the chat that is not older than the oldest message
\* of that chat in the timeline: the pages fetched by loadFeedMessages and
\* loadMoreFeedMessages leave no hole in a chat's history.
C33_NoHoleInHistory ==
    \A c \in Range(ChannelAndGroupIds(global.feed.excludedChatIds)) :
        \A k \in KeySet(canonicalTimeline) :
            k[1] = c =>
                \A m \in World(gateway) :
                    (m.chatId = c /\ m.groupedId = "" /\ m.date >= M(k).date)
                    => getSearchResultKey(m) \in KeySet(canonicalTimeline)

----------------------------------------------------------------------------
(* Filter changes while a load is in flight *)

\* activeFilterId names no preset, or a preset whose exclusions are the
\* feed's exclusions
ActiveFilterConsistent(feed) ==
    feed.activeFilterId # undefined =>
        \E n \in 1..Len(feed.savedFilters) :
            /\ feed.savedFilters[n].id = feed.activeFilterId
            /\ feed.savedFilters[n].excludedChatIds = feed.excludedChatIds

\* C34: a step in which a fetch of loadFeedMessages settles, the completion
\* of the load included, leaves excludedChatIds as the last filter
\* operation set it, keeps it consistent with activeFilterId, and when the
\* load completes the filtered timeline is the canonical timeline without
\* the excluded chats.
C34_FilterChangeSurvivesLoad ==
    [][\A i \in 1..MaxLoads, chatId \in ChannelList, outcome \in Outcomes :
        (FetchSettled(i, chatId, outcome) /\ loads[i].kind = "loadFeedMessages") =>
            /\ global'.feed.excludedChatIds = global.feed.excludedChatIds
            /\ ActiveFilterConsistent(global.feed) => ActiveFilterConsistent(global'.feed)
            /\ Merges(i, chatId, outcome) =>
                    global'.feed.messageIds =
                        FilterExcluded(global'.feed.allMessageIds, global'.feed.excludedChatIds)]_vars

----------------------------------------------------------------------------
(* The order in which the fetches of a load resolve *)

\* the fetched messages as they arrive when the fetches resolve in the
\* order of channelAndGroupIds
RECURSIVE InChatOrder(_, _)
InChatOrder(chatIds, messages) ==
    IF chatIds = <<>> THEN <<>>
    ELSE SelectSeq(messages, LAMBDA key : key[1] = Head(chatIds))
            \o InChatOrder(Tail(chatIds), messages)

\* the canonical timeline that the merge of load ld writes when its
\* fetches have resolved in the order of channelAndGroupIds
TimelineInChatOrder(ld) ==
    LET arrived == InChatOrder(ActiveChatIds, ld.messages)
    IN IF ld.kind = "loadMoreFeedMessages"
       THEN MapKeys(Consolidate(SortByDate(Lookup(UniqueByKey(MapKeys(
                SortByDate(Lookup(arrived \o existingMessages(ld.state)))))))))
       ELSE MapKeys(Consolidate(SortByDate(Lookup(arrived))))

\* C35: the canonical timeline that a merge writes is the one it writes
\* when the same fetches resolve in the order of channelAndGroupIds: the
\* order in which the fetches of a load resolve does not change the
\* timeline, the order of items with equal dates included.
C35_ResolutionOrderIrrelevant ==
    [][\A i \in 1..MaxLoads, chatId \in ChannelList, outcome \in Outcomes :
        Merges(i, chatId, outcome) =>
            global'.feed.allMessageIds =
                TimelineInChatOrder(Settle(global, loads[i], chatId, outcome).load)]_vars

----------------------------------------------------------------------------
(* The window as an index range *)

\* C36: the window of the hook is a well-formed index range in every state,
\* also when the scroll offset lies beyond the content (as after the list
\* has shrunk): 0 <= startIndex <= endIndex <= itemCount, and the window
\* holds at most ceil(containerHeight / h) + 2 * overscan items.
C36_WindowWellFormed ==
    LET w == visibleRange(view)
    IN /\ 0 <= w.startIndex
       /\ w.startIndex <= w.endIndex
       /\ w.endIndex <= view.itemsLength
       /\ w.endIndex - w.startIndex <=
            MathCeil(view.containerHeight, view.estimatedItemHeight) + 2 * view.overscan

\* the viewport [scrollTop, scrollTop + containerHeight) lies within the
\* content of itemCount items of height h
OffsetWithinContent(hook) ==
    hook.scrollTop + hook.containerHeight <= hook.itemsLength * hook.estimatedItemHeight

\* the extent [i * h, (i + 1) * h) of item i and the viewport have a point
\* in common
OverlapsViewport(hook, i) ==
    Max(i * hook.estimatedItemHeight, hook.scrollTop)
        < Min((i + 1) * hook.estimatedItemHeight, hook.scrollTop + hook.containerHeight)

\* C37: when the viewport lies within the content, every item whose extent
\* under the uniform-height model overlaps the viewport is in the window:
\* startIndex <= i < endIndex, for every overscan >= 0.
C37_WindowCoversViewport ==
    OffsetWithinContent(view) =>
        LET w == visibleRange(view)
        IN \A i \in 0..(view.itemsLength - 1) :
            OverlapsViewport(view, i) => (w.startIndex <= i /\ i < w.endIndex)

----------------------------------------------------------------------------
(* toggleFeed (misc-feed.ts 7-44).  view is the tab state the handler     *)
(* touches: isFeedOpen, feed.isClosing, and the close timers that were    *)
(* set and have not fired, oldest first (all have the same delay, so they *)
(* fire in the order they were set).  opening counts the times the feed   *)
(* was opened; a timer carries the opening during which it was set.  Both *)
(* are bookkeeping for the claim, the code has neither.                   *)

\* lines 12-33 and 36-43: the handler's new tab state
toggleFeed(tab) ==
    IF tab.isFeedOpen
    THEN [tab EXCEPT !.isClosing = TRUE, !.timers = Append(@, tab.opening)]
    ELSE [tab EXCEPT !.isFeedOpen = TRUE, !.isClosing = FALSE, !.opening = @ + 1]

\* lines 22-31: the callback of setTimeout
closeTimer(tab) ==
    [tab EXCEPT !.isFeedOpen = FALSE, !.isClosing = FALSE, !.timers = Tail(@)]

InitToggle ==
    /\ gateway = "plain"
    /\ global = [feed |-> InitialFeed, messages |-> {}]
    /\ loads = <<>>
    /\ mounted = FALSE
    /\ props = mapStateToProps([feed |-> InitialFeed, messages |-> {}])
    /\ now = 0
    /\ localStorage = <<>>
    /\ used = [ops |-> 0, failures |-> 0, last |-> "none"]
    /\ view = [isFeedOpen |-> FALSE, isClosing |-> FALSE, timers |-> <<>>, opening |-> 0]

\* getActions().toggleFeed()
ToggleFeed ==
    /\ used.ops < MaxToggles
    /\ view' = toggleFeed(view)
    /\ used' = [used EXCEPT !.ops = @ + 1, !.last = "ToggleFeed"]
    /\ UNCHANGED <<gateway, global, loads, mounted, props, now, localStorage>>

\* the oldest pending close timer fires
CloseTimerFires ==
    /\ view.timers # <<>>
    /\ view' = closeTimer(view)
    /\ used' = [used EXCEPT !.last = "CloseTimerFires"]
    /\ UNCHANGED <<gateway, global, loads, mounted, props, now, localStorage>>

NextToggle == ToggleFeed \/ CloseTimerFires

SpecToggle == InitToggle /\ [][NextToggle]_vars

\* C38: the feed goes from open to closed only by a close timer that a
\* toggleFeed call set during the present opening of the feed; isClosing is
\* set only while the feed is open; and when no close timer is pending
\* isClosing is not set.
C38_OpenUntilNextToggle ==
    [][/\ (view.isFeedOpen /\ ~view'.isFeedOpen) =>
            (view.timers # <<>> /\ Head(view.timers) = view.opening)
       /\ view'.isClosing => view'.isFeedOpen
       /\ view'.timers = <<>> => ~view'.isClosing]_vars

----------------------------------------------------------------------------
(* The active preset: the feed with a preset of an earlier session        *)
(* applied, the filter handlers and the loads.                            *)

EarlierFilterId == -1
ActiveFilterIds == {EarlierFilterId} \cup FilterIds

ActiveFeed(chatId) ==
    applyFeedFilter(
        saveFeedFilter(toggleFeedChannelExclusion(LoadInitialResult(<<>>), chatId),
                       <<"N">>, EarlierFilterId),
        EarlierFilterId)

InitActive ==
    /\ gateway \in Worlds
    /\ \E chatId \in ChannelList :
        global = [feed |-> ActiveFeed(chatId),
                  messages |-> KeySet(Pages(ChannelAndGroupIds(<<>>)))]
    /\ loads = <<>>
    /\ mounted = TRUE
    /\ props = mapStateToProps(global)
    /\ now = 0
    /\ localStorage = global.feed.savedFilters
    /\ used = [ops |-> 0, failures |-> 0, last |-> "ApplyFeedFilter"]
    /\ view = NoView

NextActive ==
    \/ Render
    \/ PollTick
    \/ PullToRefresh
    \/ HandleScroll
    \/ \E i \in 1..MaxLoads, chatId \in ChannelList, outcome \in Outcomes :
            FetchSettled(i, chatId, outcome)
    \/ \E name \in NameInputs, write \in SpecWrites : SaveFeedFilter(name, write)
    \/ \E filterId \in ActiveFilterIds, write \in SpecWrites : DeleteFeedFilter(filterId, write)
    \/ \E filterId \in ActiveFilterIds : ApplyFeedFilter(filterId)
    \/ ClearFeedFilter
    \/ DetachFeedFilter

SpecActive == InitActive /\ [][NextActive]_vars

\* C39: in every reachable state activeFilterId is undefined or the id of
\* a preset of savedFilters, whatever the interleaving of the filter
\* handlers with the loads that write the feed when they complete.
C39_ActiveFilterIsSaved ==
    global.feed.activeFilterId # undefined => HasFilter(global.feed.activeFilterId)

\* a load has completed with the feed it had read before the active
\* preset was deleted: the preset is active and saved in memory again,
\* while the store has no preset
C39_Witness ==
    /\ used.last = "FetchSettled"
    /\ global.feed.activeFilterId # undefined
    /\ HasFilter(global.feed.activeFilterId)
    /\ localStorage = <<>>

====
